---------------------------- MODULE Spec2Model ----------------------------
(***************************************************************************)
(* A model of the analysis core of Clooney-Agent: UIAnalyzer               *)
(* (src/agent/analysis/uiAnalyzer.js) and StyleExtractor / ComponentMapper *)
(* (src/agent/analysis/styleExtractor.js).                                 *)
(*                                                                         *)
(* JavaScript strings are sequences of one-character strings, so that      *)
(* join, includes, toLowerCase, the /(\d+)px/ match and parseInt are       *)
(* computed as the code computes them.  The JavaScript value `undefined`   *)
(* is the one-element sequence Undefined, which no character sequence      *)
(* equals.                                                                 *)
(***************************************************************************)
EXTENDS Integers, Sequences, FiniteSets, TLC

VARIABLES
  pc,            \* position of the run: which operation has been applied
  domData,       \* UIAnalyzer.domData: the snapshot tree under analysis
  report,        \* the AnalysisReport returned by generateAnalysisReport
  componentMap,  \* the map returned by ComponentMapper.generateComponentMap
  node,          \* the node a helper (classifier, signature) is applied to
  other,         \* a second node, for the signature of a pair of nodes
  raw,           \* the raw style value handed to a quantizer
  result         \* what the last helper application returned

vars == <<pc, domData, report, componentMap, node, other, raw, result>>

-----------------------------------------------------------------------------
(* Bounds of the model *)

MaxClassTokens == 2     \* class tokens of a node handed to the classifier
MaxSigClasses == 2      \* class tokens of a node handed to the signature
MaxSigChildren == 1     \* children of a node handed to the signature
MaxNodes == 4           \* nodes of a snapshot tree of the analysis run
MaxPatternNodes == 5    \* nodes of a snapshot tree of the pattern run
MaxTokenNodes == 3      \* nodes of a snapshot tree of the token run
MaxClock == 2           \* distinct clock readings of new Date()

-----------------------------------------------------------------------------
(* JavaScript values and string operations *)

Undefined == <<"undefined">>

\* The JavaScript value null
Null == <<"null">>

\* A JavaScript value used as a condition: undefined, null and "" are falsy.
Truthy(v) == v # Undefined /\ v # Null /\ v # << >>

\* v || d
OrElse(v, d) == IF Truthy(v) THEN v ELSE d

\* Template-literal / join conversion of a string-or-undefined to a string.
ToStr(v) == IF v = Undefined THEN <<"u","n","d","e","f","i","n","e","d">> ELSE v

UpperChars == <<"A","B","C","D","E","F","G","H","I","J","K","L","M",
                "N","O","P","Q","R","S","T","U","V","W","X","Y","Z">>
LowerChars == <<"a","b","c","d","e","f","g","h","i","j","k","l","m",
                "n","o","p","q","r","s","t","u","v","w","x","y","z">>
DigitChars == <<"0","1","2","3","4","5","6","7","8","9">>

LowerChar(c) ==
  IF \E i \in 1..26 : UpperChars[i] = c
    THEN LowerChars[CHOOSE i \in 1..26 : UpperChars[i] = c]
    ELSE c

\* String.prototype.toLowerCase
toLowerCase(s) == [i \in 1..Len(s) |-> LowerChar(s[i])]

\* String.prototype.includes
includes(s, sub) ==
  \E i \in 0..(Len(s) - Len(sub)) : SubSeq(s, i + 1, i + Len(sub)) = sub

\* Array.prototype.join on an array of strings
RECURSIVE join(_, _)
join(arr, sep) ==
  IF Len(arr) = 0 THEN << >>
  ELSE IF Len(arr) = 1 THEN arr[1]
  ELSE arr[1] \o sep \o join(Tail(arr), sep)

\* Number to decimal string, as a template literal prints a non-negative integer
RECURSIVE NumToStr(_)
NumToStr(n) ==
  IF n < 10 THEN <<DigitChars[n + 1]>>
  ELSE NumToStr(n \div 10) \o <<DigitChars[(n % 10) + 1]>>

IsAlnum(c) ==
  \/ \E i \in 1..26 : UpperChars[i] = c \/ LowerChars[i] = c
  \/ \E i \in 1..10 : DigitChars[i] = c

\* s.replace(/[^a-zA-Z0-9]/g, '')
StripNonAlnum(s) == SelectSeq(s, IsAlnum)

Range(s) == {s[i] : i \in 1..Len(s)}

\* All sequences over S of length at most n
SeqsUpTo(S, n) == UNION {[1..k -> S] : k \in 0..n}

-----------------------------------------------------------------------------
(* Keywords and literals of the source *)

K_button == <<"b","u","t","t","o","n">>
K_btn == <<"b","t","n">>
K_nav == <<"n","a","v">>
K_menu == <<"m","e","n","u">>
K_form == <<"f","o","r","m">>
K_input == <<"i","n","p","u","t">>
K_select == <<"s","e","l","e","c","t">>
K_textarea == <<"t","e","x","t","a","r","e","a">>
K_img == <<"i","m","g">>
K_picture == <<"p","i","c","t","u","r","e">>
K_card == <<"c","a","r","d">>
K_modal == <<"m","o","d","a","l">>
K_dialog == <<"d","i","a","l","o","g">>
K_header == <<"h","e","a","d","e","r">>
K_footer == <<"f","o","o","t","e","r">>
K_aside == <<"a","s","i","d","e">>
K_sidebar == <<"s","i","d","e","b","a","r">>
K_main == <<"m","a","i","n">>
K_section == <<"s","e","c","t","i","o","n">>
K_article == <<"a","r","t","i","c","l","e">>
K_a == <<"a">>
K_div == <<"d","i","v">>
K_container == <<"c","o","n","t","a","i","n","e","r">>
K_primary == <<"p","r","i","m","a","r","y">>
K_btnPrimary == <<"b","t","n","-","p","r","i","m","a","r","y">>

-----------------------------------------------------------------------------
(* Snapshot nodes *)

\* node.styles?.prop: a style property of a node, undefined when the node has
\* no styles object or the object has no such key.
Style(n, prop) ==
  IF prop \in DOMAIN n.styles THEN n.styles[prop] ELSE Undefined

\* A node without a styles object.
NoStyles == [p \in {} |-> Undefined]

NoRect == [width |-> 0, height |-> 0]

Leaf(tag, id, classes) ==
  [tag |-> tag, id |-> id, classes |-> classes, styles |-> NoStyles,
   rect |-> NoRect, children |-> << >>]

\* node.children?.length || 0
ChildCount(n) == Len(n.children)

-----------------------------------------------------------------------------
(* UIAnalyzer helper methods (uiAnalyzer.js 245-311) *)

\* generateComponentSignature with the child count left out
generateComponentSignature_NoCount(n) ==
  ToStr(n.tag) \o <<":">> \o join(n.classes, <<".">>)

\* generateComponentSignature with the node's id mixed in
generateComponentSignature_WithId(n) ==
  ToStr(n.tag) \o <<"#">> \o ToStr(n.id) \o <<":">> \o join(n.classes, <<".">>)
    \o <<":">> \o NumToStr(ChildCount(n))

generateComponentSignature(n) ==
  ToStr(n.tag) \o <<":">> \o join(n.classes, <<".">>) \o <<":">>
    \o NumToStr(ChildCount(n))

\* generateComponentName that keeps the class token as it is
generateComponentName_NoStrip(n) ==
  IF Truthy(n.id) THEN n.id
  ELSE IF Len(n.classes) > 0 THEN n.classes[1]
  ELSE ToStr(n.tag) \o <<"C","o","m","p","o","n","e","n","t">>

generateComponentName(n) ==
  IF Truthy(n.id) THEN n.id
  ELSE IF Len(n.classes) > 0 THEN StripNonAlnum(n.classes[1])
  ELSE ToStr(n.tag) \o <<"C","o","m","p","o","n","e","n","t">>

interactiveTags == {K_button, K_a, K_input, K_select, K_textarea}

\* hasInteractiveElements looking at the children only, not at the node's own tag
RECURSIVE hasInteractiveElements_ChildrenOnly(_)
hasInteractiveElements_ChildrenOnly(n) ==
  \E i \in 1..Len(n.children) :
    \/ n.children[i].tag \in interactiveTags
    \/ hasInteractiveElements_ChildrenOnly(n.children[i])

RECURSIVE hasInteractiveElements(_)
hasInteractiveElements(n) ==
  IF n.tag \in interactiveTags THEN TRUE
  ELSE \E i \in 1..Len(n.children) : hasInteractiveElements(n.children[i])

\* isComponentLike that asks for children and ignores interactivity
isComponentLike_ChildrenOnly(n) ==
  LET hasId == Truthy(n.id)
      hasClasses == Len(n.classes) > 0
      hasChildren == Len(n.children) > 0
  IN (hasId \/ hasClasses) /\ hasChildren

isComponentLike(n) ==
  LET hasId == Truthy(n.id)
      hasClasses == Len(n.classes) > 0
      hasChildren == Len(n.children) > 0
      isInteractive == hasInteractiveElements(n)
  IN (hasId \/ hasClasses) /\ (hasChildren \/ isInteractive)

\* estimateComponentType with the navigation rule tried before the button rule
estimateComponentType_NavFirst(n) ==
  LET tag == toLowerCase(n.tag)
      classes == toLowerCase(join(n.classes, <<" ">>))
      id == toLowerCase(OrElse(n.id, << >>))
  IN IF tag = K_nav \/ includes(classes, K_nav) \/ includes(classes, K_menu)
       THEN "navigation"
     ELSE IF tag = K_button \/ includes(classes, K_button) \/ includes(id, K_btn)
       THEN "button"
     ELSE IF tag = K_form \/ includes(classes, K_form) THEN "form"
     ELSE IF tag = K_input \/ tag = K_select \/ tag = K_textarea THEN "input"
     ELSE IF tag = K_img \/ tag = K_picture THEN "image"
     ELSE IF tag = K_card \/ includes(classes, K_card) THEN "card"
     ELSE IF tag = K_modal \/ includes(classes, K_modal)
               \/ includes(classes, K_dialog)
       THEN "modal"
     ELSE IF tag = K_header \/ includes(id, K_header) THEN "header"
     ELSE IF tag = K_footer \/ includes(id, K_footer) THEN "footer"
     ELSE IF tag = K_aside \/ includes(id, K_sidebar) THEN "sidebar"
     ELSE "container"

estimateComponentType(n) ==
  LET tag == toLowerCase(n.tag)
      classes == toLowerCase(join(n.classes, <<" ">>))
      id == toLowerCase(OrElse(n.id, << >>))
  IN IF tag = K_button \/ includes(classes, K_button) \/ includes(id, K_btn)
       THEN "button"
     ELSE IF tag = K_nav \/ includes(classes, K_nav) \/ includes(classes, K_menu)
       THEN "navigation"
     ELSE IF tag = K_form \/ includes(classes, K_form) THEN "form"
     ELSE IF tag = K_input \/ tag = K_select \/ tag = K_textarea THEN "input"
     ELSE IF tag = K_img \/ tag = K_picture THEN "image"
     ELSE IF tag = K_card \/ includes(classes, K_card) THEN "card"
     ELSE IF tag = K_modal \/ includes(classes, K_modal)
               \/ includes(classes, K_dialog)
       THEN "modal"
     ELSE IF tag = K_header \/ includes(id, K_header) THEN "header"
     ELSE IF tag = K_footer \/ includes(id, K_footer) THEN "footer"
     ELSE IF tag = K_aside \/ includes(id, K_sidebar) THEN "sidebar"
     ELSE "container"

identifySectionPurpose(n) ==
  LET tag == toLowerCase(n.tag)
      classes == toLowerCase(join(n.classes, <<" ">>))
      id == toLowerCase(OrElse(n.id, << >>))
  IN IF tag = K_header \/ includes(id, K_header) THEN "header"
     ELSE IF tag = K_nav \/ includes(classes, K_nav) THEN "navigation"
     ELSE IF tag = K_main \/ includes(id, K_main) THEN "main-content"
     ELSE IF tag = K_aside \/ includes(id, K_sidebar) THEN "sidebar"
     ELSE IF tag = K_footer \/ includes(id, K_footer) THEN "footer"
     ELSE IF tag = K_section \/ tag = K_article THEN "content-section"
     ELSE "unknown"

-----------------------------------------------------------------------------
(* The five walks of UIAnalyzer (uiAnalyzer.js 12-242).  Each walk is the   *)
(* recursion of its traverseNode: the node first, then its children in      *)
(* order, the accumulator threaded through.  The snapshot is a tree whose    *)
(* nodes are distinct objects (extractDOM.js 25-97 builds a fresh object per *)
(* element), so the `visited` set of analyzeComponentStructure never         *)
(* rejects a node.                                                           *)

ComponentRecord(n) ==
  [name |-> generateComponentName(n),
   tag |-> n.tag,
   id |-> n.id,
   classes |-> n.classes,
   signature |-> generateComponentSignature(n),
   childCount |-> ChildCount(n),
   hasInteractiveElements |-> hasInteractiveElements(n),
   estimatedType |-> estimateComponentType(n)]

RECURSIVE traverseComponents(_, _)
traverseComponents(n, components) ==
  LET here == IF isComponentLike(n)
                THEN Append(components, ComponentRecord(n))
                ELSE components
      kids[i \in 0..Len(n.children)] ==
        IF i = 0 THEN here ELSE traverseComponents(n.children[i], kids[i - 1])
  IN kids[Len(n.children)]

analyzeComponentStructure(root) == traverseComponents(root, << >>)

K_flex == <<"f","l","e","x">>
K_grid == <<"g","r","i","d">>
K_block == <<"b","l","o","c","k">>
K_inlineBlock == <<"i","n","l","i","n","e","-","b","l","o","c","k">>
K_row == <<"r","o","w">>
K_none == <<"n","o","n","e">>

\* The layout descriptor of a node; "null" when the node has no layout.
\* detectLayout without the 'row' default of a flex container's direction
detectLayout_NoRowDefault(n) ==
  LET display == Style(n, "display")
  IN IF display = K_flex
       THEN [type |-> "flex",
             direction |-> Style(n, "flexDirection"),
             justifyContent |-> Style(n, "justifyContent"),
             alignItems |-> Style(n, "alignItems"),
             gap |-> Style(n, "gap")]
     ELSE IF display = K_grid
       THEN [type |-> "grid",
             columns |-> Style(n, "gridTemplateColumns"),
             rows |-> Style(n, "gridTemplateRows"),
             gap |-> Style(n, "gap")]
     ELSE IF display = K_block \/ display = K_inlineBlock
       THEN [type |-> "block",
             width |-> Style(n, "width"),
             height |-> Style(n, "height")]
     ELSE [type |-> "null"]

detectLayout(n) ==
  LET display == Style(n, "display")
  IN IF display = K_flex
       THEN [type |-> "flex",
             direction |-> OrElse(Style(n, "flexDirection"), K_row),
             justifyContent |-> Style(n, "justifyContent"),
             alignItems |-> Style(n, "alignItems"),
             gap |-> Style(n, "gap")]
     ELSE IF display = K_grid
       THEN [type |-> "grid",
             columns |-> Style(n, "gridTemplateColumns"),
             rows |-> Style(n, "gridTemplateRows"),
             gap |-> Style(n, "gap")]
     ELSE IF display = K_block \/ display = K_inlineBlock
       THEN [type |-> "block",
             width |-> Style(n, "width"),
             height |-> Style(n, "height")]
     ELSE [type |-> "null"]

RECURSIVE traverseLayouts(_, _)
traverseLayouts(n, layouts) ==
  LET layout == detectLayout(n)
      here == IF layout.type # "null"
                THEN Append(layouts,
                            [tag |-> n.tag, id |-> n.id, classes |-> n.classes,
                             layout |-> layout, childCount |-> ChildCount(n)])
                ELSE layouts
      kids[i \in 0..Len(n.children)] ==
        IF i = 0 THEN here ELSE traverseLayouts(n.children[i], kids[i - 1])
  IN kids[Len(n.children)]

analyzeLayoutPatterns(root) == traverseLayouts(root, << >>)

\* Set.prototype.add on a Set kept as its insertion-ordered sequence
\* Set.prototype.add that appends the value also when the set holds it
SetAdd_Dup(set, v) == Append(set, v)

SetAdd(set, v) == IF v \in Range(set) THEN set ELSE Append(set, v)

V_transparent ==
  <<"r","g","b","a","(","0",","," ","0",","," ","0",","," ","0",")">>
V_0px == <<"0","p","x">>

EmptyTokens ==
  [colors |-> << >>, fontSizes |-> << >>, fontWeights |-> << >>,
   spacing |-> << >>, borderRadii |-> << >>, shadows |-> << >>]

\* The body of traverseNode without the "0px" and "none" exclusions
AddNodeTokens_NoExclusion(n, tokens) ==
  LET bg == Style(n, "backgroundColor")
      t1 == IF Truthy(bg) /\ bg # V_transparent
              THEN [tokens EXCEPT !.colors = SetAdd(@, bg)] ELSE tokens
      t2 == IF Truthy(Style(n, "color"))
              THEN [t1 EXCEPT !.colors = SetAdd(@, Style(n, "color"))] ELSE t1
      t3 == IF Truthy(Style(n, "fontSize"))
              THEN [t2 EXCEPT !.fontSizes = SetAdd(@, Style(n, "fontSize"))]
              ELSE t2
      t4 == IF Truthy(Style(n, "fontWeight"))
              THEN [t3 EXCEPT !.fontWeights = SetAdd(@, Style(n, "fontWeight"))]
              ELSE t3
      t5 == IF Truthy(Style(n, "padding"))
              THEN [t4 EXCEPT !.spacing = SetAdd(@, Style(n, "padding"))] ELSE t4
      t6 == IF Truthy(Style(n, "margin"))
              THEN [t5 EXCEPT !.spacing = SetAdd(@, Style(n, "margin"))] ELSE t5
      t7 == IF Truthy(Style(n, "borderRadius"))
              THEN [t6 EXCEPT !.borderRadii = SetAdd(@, Style(n, "borderRadius"))]
              ELSE t6
      t8 == IF Truthy(Style(n, "boxShadow"))
              THEN [t7 EXCEPT !.shadows = SetAdd(@, Style(n, "boxShadow"))]
              ELSE t7
  IN t8

\* The body of extractDesignTokens' traverseNode for one node
AddNodeTokens(n, tokens) ==
  LET bg == Style(n, "backgroundColor")
      t1 == IF Truthy(bg) /\ bg # V_transparent
              THEN [tokens EXCEPT !.colors = SetAdd(@, bg)] ELSE tokens
      t2 == IF Truthy(Style(n, "color"))
              THEN [t1 EXCEPT !.colors = SetAdd(@, Style(n, "color"))] ELSE t1
      t3 == IF Truthy(Style(n, "fontSize"))
              THEN [t2 EXCEPT !.fontSizes = SetAdd(@, Style(n, "fontSize"))]
              ELSE t2
      t4 == IF Truthy(Style(n, "fontWeight"))
              THEN [t3 EXCEPT !.fontWeights = SetAdd(@, Style(n, "fontWeight"))]
              ELSE t3
      t5 == IF Truthy(Style(n, "padding"))
              THEN [t4 EXCEPT !.spacing = SetAdd(@, Style(n, "padding"))] ELSE t4
      t6 == IF Truthy(Style(n, "margin"))
              THEN [t5 EXCEPT !.spacing = SetAdd(@, Style(n, "margin"))] ELSE t5
      br == Style(n, "borderRadius")
      t7 == IF Truthy(br) /\ br # V_0px
              THEN [t6 EXCEPT !.borderRadii = SetAdd(@, br)] ELSE t6
      sh == Style(n, "boxShadow")
      t8 == IF Truthy(sh) /\ sh # K_none
              THEN [t7 EXCEPT !.shadows = SetAdd(@, sh)] ELSE t7
  IN t8

RECURSIVE traverseTokens(_, _)
traverseTokens(n, tokens) ==
  LET here == IF DOMAIN n.styles # {} THEN AddNodeTokens(n, tokens) ELSE tokens
      kids[i \in 0..Len(n.children)] ==
        IF i = 0 THEN here ELSE traverseTokens(n.children[i], kids[i - 1])
  IN kids[Len(n.children)]

extractDesignTokens(root) == traverseTokens(root, EmptyTokens)

\* nodeSignatures after the walk: the nodes pushed so far, in push order; the
\* list under a signature is the subsequence of the nodes carrying it.
RECURSIVE traversePatterns(_, _)
traversePatterns(n, pushed) ==
  LET here == Append(pushed, n)
      kids[i \in 0..Len(n.children)] ==
        IF i = 0 THEN here ELSE traversePatterns(n.children[i], kids[i - 1])
  IN kids[Len(n.children)]

ExampleCap == 3

\* detectRepeatedPatterns that keeps every group, also those of one node
detectRepeatedPatterns_AllGroups(root) ==
  LET pushed == traversePatterns(root, << >>)
      keys == {generateComponentSignature(pushed[i]) : i \in 1..Len(pushed)}
      nodeSignatures ==
        [s \in keys |->
           SelectSeq(pushed, LAMBDA m : generateComponentSignature(m) = s)]
  IN [s \in keys |->
        [count |-> Len(nodeSignatures[s]),
         examples |->
           [i \in 1..(IF Len(nodeSignatures[s]) < ExampleCap
                        THEN Len(nodeSignatures[s]) ELSE ExampleCap) |->
              [tag |-> nodeSignatures[s][i].tag,
               id |-> nodeSignatures[s][i].id,
               classes |-> nodeSignatures[s][i].classes]]]]

\* detectRepeatedPatterns that does not cap the examples
detectRepeatedPatterns_NoCap(root) ==
  LET pushed == traversePatterns(root, << >>)
      keys == {generateComponentSignature(pushed[i]) : i \in 1..Len(pushed)}
      nodeSignatures ==
        [s \in keys |->
           SelectSeq(pushed, LAMBDA m : generateComponentSignature(m) = s)]
      repeated == {s \in keys : Len(nodeSignatures[s]) > 1}
  IN [s \in repeated |->
        [count |-> Len(nodeSignatures[s]),
         examples |->
           [i \in 1..Len(nodeSignatures[s]) |->
              [tag |-> nodeSignatures[s][i].tag,
               id |-> nodeSignatures[s][i].id,
               classes |-> nodeSignatures[s][i].classes]]]]

detectRepeatedPatterns(root) ==
  LET pushed == traversePatterns(root, << >>)
      keys == {generateComponentSignature(pushed[i]) : i \in 1..Len(pushed)}
      nodeSignatures ==
        [s \in keys |->
           SelectSeq(pushed, LAMBDA m : generateComponentSignature(m) = s)]
      repeated == {s \in keys : Len(nodeSignatures[s]) > 1}
  IN [s \in repeated |->
        [count |-> Len(nodeSignatures[s]),
         examples |->
           [i \in 1..(IF Len(nodeSignatures[s]) < ExampleCap
                        THEN Len(nodeSignatures[s]) ELSE ExampleCap) |->
              [tag |-> nodeSignatures[s][i].tag,
               id |-> nodeSignatures[s][i].id,
               classes |-> nodeSignatures[s][i].classes]]]]

K_roleNavigation ==
  <<"[","r","o","l","e","=","\"","n","a","v","i","g","a","t","i","o","n","\"","]">>
K_roleMain == <<"[","r","o","l","e","=","\"","m","a","i","n","\"","]">>
K_roleContentinfo ==
  <<"[","r","o","l","e","=","\"","c","o","n","t","e","n","t","i","n","f","o","\"","]">>

sectionSelectors ==
  {K_header, K_nav, K_main, K_section, K_article, K_aside, K_footer,
   K_roleNavigation, K_roleMain, K_roleContentinfo}

MaxSectionDepth == 10

RECURSIVE traverseSections(_, _, _)
traverseSections(n, depth, sections) ==
  IF depth > MaxSectionDepth THEN sections
  ELSE
    LET here == IF n.tag \in sectionSelectors
                  THEN Append(sections,
                              [tag |-> n.tag, id |-> n.id, classes |-> n.classes,
                               rect |-> n.rect, childCount |-> ChildCount(n),
                               purpose |-> identifySectionPurpose(n)])
                  ELSE sections
        kids[i \in 0..Len(n.children)] ==
          IF i = 0 THEN here
          ELSE traverseSections(n.children[i], depth + 1, kids[i - 1])
    IN kids[Len(n.children)]

identifyPageSections(root) == traverseSections(root, 0, << >>)

\* generateAnalysisReport that makes component names unique with the clock
generateAnalysisReport_ClockInNames(root, t) ==
  LET components == analyzeComponentStructure(root)
  IN [components |->
        [i \in 1..Len(components) |->
           [components[i] EXCEPT !.name = @ \o NumToStr(t)]],
      layouts |-> analyzeLayoutPatterns(root),
      designTokens |-> extractDesignTokens(root),
      repeatedPatterns |-> detectRepeatedPatterns(root),
      sections |-> identifyPageSections(root),
      timestamp |-> t]

\* generateAnalysisReport at clock reading t
generateAnalysisReport(root, t) ==
  [components |-> analyzeComponentStructure(root),
   layouts |-> analyzeLayoutPatterns(root),
   designTokens |-> extractDesignTokens(root),
   repeatedPatterns |-> detectRepeatedPatterns(root),
   sections |-> identifyPageSections(root),
   timestamp |-> t]

-----------------------------------------------------------------------------
(* StyleExtractor quantizers (styleExtractor.js 39-72, 187-220) *)

\* Object.entries(buildSpacingMap()): the entries in declared order (no key is
\* an integer index, so insertion order is iteration order)
spacingMap ==
  << [key |-> <<"0","p","x">>, val |-> <<"0">>],
     [key |-> <<"4","p","x">>, val |-> <<"1">>],
     [key |-> <<"8","p","x">>, val |-> <<"2">>],
     [key |-> <<"1","2","p","x">>, val |-> <<"3">>],
     [key |-> <<"1","6","p","x">>, val |-> <<"4">>],
     [key |-> <<"2","0","p","x">>, val |-> <<"5">>],
     [key |-> <<"2","4","p","x">>, val |-> <<"6">>],
     [key |-> <<"2","8","p","x">>, val |-> <<"7">>],
     [key |-> <<"3","2","p","x">>, val |-> <<"8">>],
     [key |-> <<"3","6","p","x">>, val |-> <<"9">>],
     [key |-> <<"4","0","p","x">>, val |-> <<"1","0">>],
     [key |-> <<"4","4","p","x">>, val |-> <<"1","1">>],
     [key |-> <<"4","8","p","x">>, val |-> <<"1","2">>],
     [key |-> <<"6","4","p","x">>, val |-> <<"1","6">>],
     [key |-> <<"8","0","p","x">>, val |-> <<"2","0">>],
     [key |-> <<"9","6","p","x">>, val |-> <<"2","4">>] >>

\* Object.entries(buildFontSizeMap())
fontSizeMap ==
  << [key |-> <<"1","2","p","x">>, val |-> <<"x","s">>],
     [key |-> <<"1","4","p","x">>, val |-> <<"s","m">>],
     [key |-> <<"1","6","p","x">>, val |-> <<"b","a","s","e">>],
     [key |-> <<"1","8","p","x">>, val |-> <<"l","g">>],
     [key |-> <<"2","0","p","x">>, val |-> <<"x","l">>],
     [key |-> <<"2","4","p","x">>, val |-> <<"2","x","l">>],
     [key |-> <<"3","0","p","x">>, val |-> <<"3","x","l">>],
     [key |-> <<"3","6","p","x">>, val |-> <<"4","x","l">>],
     [key |-> <<"4","8","p","x">>, val |-> <<"5","x","l">>] >>

IsDigit(c) == \E i \in 1..10 : DigitChars[i] = c

DigitValue(c) == (CHOOSE i \in 1..10 : DigitChars[i] = c) - 1

\* The end of the longest run of digits of s that starts at i (i - 1 when
\* s[i] is no digit)
RECURSIVE DigitRunEnd(_, _)
DigitRunEnd(s, i) ==
  IF i <= Len(s) /\ IsDigit(s[i]) THEN DigitRunEnd(s, i + 1) ELSE i - 1

\* parseInt of a string that starts with a digit: the value of its leading
\* run of digits.  Every caller passes a dictionary key or the digits the
\* regular expression captured.
RECURSIVE DigitsValue(_, _)
DigitsValue(s, k) ==
  IF k = 0 THEN 0 ELSE 10 * DigitsValue(s, k - 1) + DigitValue(s[k])

parseInt(s) == DigitsValue(s, DigitRunEnd(s, 1))

\* /(\d+)px/ matches at i: a run of digits starting at i, "px" right after it
PxMatchesAt(s, i) ==
  LET j == DigitRunEnd(s, i)
  IN /\ j >= i
     /\ j + 2 <= Len(s)
     /\ s[j + 1] = "p"
     /\ s[j + 2] = "x"

\* value.match(/(\d+)px/): group 1 of the leftmost match, Null without a match
matchPx(s) ==
  LET starts == {i \in 1..Len(s) : PxMatchesAt(s, i)}
  IN IF starts = {} THEN Null
     ELSE LET i == CHOOSE i \in starts : \A k \in starts : i <= k
          IN SubSeq(s, i, DigitRunEnd(s, i))

Abs(x) == IF x < 0 THEN -x ELSE x

\* Object.entries(map).reduce((prev, [key, val]) => ... ) without an initial
\* value: the first entry starts as prev and the callback runs from the second
\* entry on; entry k replaces prev only when it is strictly closer to px
RECURSIVE reduceClosest(_, _, _, _)
reduceClosest(map, px, k, prev) ==
  IF k > Len(map) THEN prev
  ELSE IF Abs(parseInt(map[k].key) - px) < Abs(parseInt(prev.key) - px)
    THEN reduceClosest(map, px, k + 1, map[k])
    ELSE reduceClosest(map, px, k + 1, prev)

\* the same reduce with <= for <: among equally close entries the last wins
RECURSIVE reduceClosest_LastWins(_, _, _, _)
reduceClosest_LastWins(map, px, k, prev) ==
  IF k > Len(map) THEN prev
  ELSE IF Abs(parseInt(map[k].key) - px) <= Abs(parseInt(prev.key) - px)
    THEN reduceClosest_LastWins(map, px, k + 1, map[k])
    ELSE reduceClosest_LastWins(map, px, k + 1, prev)

\* map[value]: the token under an own key of the dictionary, Undefined otherwise
Lookup(map, value) ==
  IF \E i \in 1..Len(map) : map[i].key = value
    THEN map[CHOOSE i \in 1..Len(map) : map[i].key = value].val
    ELSE Undefined

Quantize(map, value) ==
  IF ~Truthy(value) THEN Null
  ELSE IF Truthy(Lookup(map, value)) THEN Lookup(map, value)
  ELSE LET match == matchPx(value)
       IN IF match # Null
            THEN reduceClosest(map, parseInt(match), 2, map[1]).val
            ELSE Null

\* mapSpacing whose reduce lets the last of equally close entries win
mapSpacing_LastWins(value) ==
  IF ~Truthy(value) THEN Null
  ELSE IF Truthy(Lookup(spacingMap, value)) THEN Lookup(spacingMap, value)
  ELSE LET match == matchPx(value)
       IN IF match # Null
            THEN reduceClosest_LastWins(spacingMap, parseInt(match),
                                        2, spacingMap[1]).val
            ELSE Null

mapSpacing(value) == Quantize(spacingMap, value)

mapFontSize(size) == Quantize(fontSizeMap, size)

-----------------------------------------------------------------------------
(* StyleExtractor: colours and radii (styleExtractor.js 11-37, 174-185, 222-246) *)

\* Object.entries(buildColorMap())
colorMap ==
  << [key |-> <<"#","0","0","0","0","0","0">>, val |-> <<"b","l","a","c","k">>],
     [key |-> <<"#","f","f","f","f","f","f">>, val |-> <<"w","h","i","t","e">>],
     [key |-> <<"#","f","3","f","4","f","6">>, val |-> <<"g","r","a","y","-","1","0","0">>],
     [key |-> <<"#","e","5","e","7","e","b">>, val |-> <<"g","r","a","y","-","2","0","0">>],
     [key |-> <<"#","d","1","d","5","d","b">>, val |-> <<"g","r","a","y","-","3","0","0">>],
     [key |-> <<"#","9","c","a","3","a","f">>, val |-> <<"g","r","a","y","-","4","0","0">>],
     [key |-> <<"#","6","b","7","2","8","0">>, val |-> <<"g","r","a","y","-","5","0","0">>],
     [key |-> <<"#","4","b","5","5","6","3">>, val |-> <<"g","r","a","y","-","6","0","0">>],
     [key |-> <<"#","3","7","4","1","5","1">>, val |-> <<"g","r","a","y","-","7","0","0">>],
     [key |-> <<"#","1","f","2","9","3","7">>, val |-> <<"g","r","a","y","-","8","0","0">>],
     [key |-> <<"#","1","1","1","8","2","7">>, val |-> <<"g","r","a","y","-","9","0","0">>],
     [key |-> <<"#","3","b","8","2","f","6">>, val |-> <<"b","l","u","e","-","5","0","0">>],
     [key |-> <<"#","2","5","6","3","e","b">>, val |-> <<"b","l","u","e","-","6","0","0">>],
     [key |-> <<"#","1","d","4","e","d","8">>, val |-> <<"b","l","u","e","-","7","0","0">>],
     [key |-> <<"#","e","f","4","4","4","4">>, val |-> <<"r","e","d","-","5","0","0">>],
     [key |-> <<"#","d","c","2","6","2","6">>, val |-> <<"r","e","d","-","6","0","0">>],
     [key |-> <<"#","b","9","1","c","1","c">>, val |-> <<"r","e","d","-","7","0","0">>],
     [key |-> <<"#","1","0","b","9","8","1">>, val |-> <<"g","r","e","e","n","-","5","0","0">>],
     [key |-> <<"#","0","5","9","6","6","9">>, val |-> <<"g","r","e","e","n","-","6","0","0">>],
     [key |-> <<"#","0","4","7","8","5","7">>, val |-> <<"g","r","e","e","n","-","7","0","0">>],
     [key |-> <<"#","f","5","9","e","0","b">>, val |-> <<"a","m","b","e","r","-","5","0","0">>],
     [key |-> <<"#","d","9","7","7","0","6">>, val |-> <<"a","m","b","e","r","-","6","0","0">>],
     [key |-> <<"#","b","4","5","3","0","9">>, val |-> <<"a","m","b","e","r","-","7","0","0">>] >>

\* \s of a regular expression, on the white space a computed style can hold
IsSpace(c) == c = " " \/ c = "\t"

\* The end of the longest run of white space of s that starts at i
RECURSIVE SpaceRunEnd(_, _)
SpaceRunEnd(s, i) ==
  IF i <= Len(s) /\ IsSpace(s[i]) THEN SpaceRunEnd(s, i + 1) ELSE i - 1

CharAt(s, i) == IF i >= 1 /\ i <= Len(s) THEN s[i] ELSE ""

\* /rgb\((\d+),\s*(\d+),\s*(\d+)\)/ tried at position i: the three captured
\* groups, Null when the expression does not match there.  A greedy \d+ or \s*
\* never has to give a character back, since the character that must follow
\* it is of neither class.
RgbMatchAt(s, i) ==
  LET r1 == i + 4
      r2 == DigitRunEnd(s, r1)
      g1 == SpaceRunEnd(s, r2 + 2) + 1
      g2 == DigitRunEnd(s, g1)
      b1 == SpaceRunEnd(s, g2 + 2) + 1
      b2 == DigitRunEnd(s, b1)
  IN IF /\ i + 3 <= Len(s)
        /\ SubSeq(s, i, i + 3) = <<"r","g","b","(">>
        /\ r2 >= r1
        /\ CharAt(s, r2 + 1) = ","
        /\ g2 >= g1
        /\ CharAt(s, g2 + 1) = ","
        /\ b2 >= b1
        /\ CharAt(s, b2 + 1) = ")"
       THEN <<SubSeq(s, r1, r2), SubSeq(s, g1, g2), SubSeq(s, b1, b2)>>
       ELSE Null

\* color.match(/rgb\((\d+),\s*(\d+),\s*(\d+)\)/): the groups of the leftmost
\* match, Null without a match
matchRgb(s) ==
  LET starts == {i \in 1..Len(s) : RgbMatchAt(s, i) # Null}
  IN IF starts = {} THEN Null
     ELSE RgbMatchAt(s, CHOOSE i \in starts : \A k \in starts : i <= k)

HexChars == <<"0","1","2","3","4","5","6","7","8","9","a","b","c","d","e","f">>

\* Number.prototype.toString(16) of a non-negative integer
RECURSIVE toString16(_)
toString16(n) ==
  IF n < 16 THEN <<HexChars[n + 1]>>
  ELSE toString16(n \div 16) \o <<HexChars[(n % 16) + 1]>>

\* String.prototype.padStart(2, '0')
padStart2(s) == IF Len(s) < 2 THEN [i \in 1..(2 - Len(s)) |-> "0"] \o s ELSE s

normalizeColor(color) ==
  IF ~Truthy(color) THEN << >>
  ELSE LET rgbMatch == matchRgb(color)
       IN IF rgbMatch # Null
            THEN LET r == padStart2(toString16(parseInt(rgbMatch[1])))
                     g == padStart2(toString16(parseInt(rgbMatch[2])))
                     b == padStart2(toString16(parseInt(rgbMatch[3])))
                 IN toLowerCase(<<"#">> \o r \o g \o b)
            ELSE toLowerCase(color)

\* mapColor that falls back to the first dictionary entry for an unmatched color
mapColor_Fallback(color) ==
  IF ~Truthy(color) THEN Null
  ELSE IF Truthy(Lookup(colorMap, color)) THEN Lookup(colorMap, color)
  ELSE IF Truthy(Lookup(colorMap, normalizeColor(color)))
    THEN Lookup(colorMap, normalizeColor(color))
  ELSE colorMap[1].val

mapColor(color) ==
  IF ~Truthy(color) THEN Null
  ELSE IF Truthy(Lookup(colorMap, color)) THEN Lookup(colorMap, color)
  ELSE LET normalized == normalizeColor(color)
       IN IF Truthy(Lookup(colorMap, normalized))
            THEN Lookup(colorMap, normalized)
            ELSE Null

K_lg == <<"l","g">>
K_sm == <<"s","m">>
K_md == <<"m","d">>
K_xl == <<"x","l">>
K_full == <<"f","u","l","l">>
V_6px == <<"6","p","x">>
V_12px == <<"1","2","p","x">>
V_9999px == <<"9","9","9","9","p","x">>

mapBorderRadius(radius) ==
  IF ~Truthy(radius) THEN Null
  ELSE IF radius = V_0px THEN Null
  ELSE IF radius = <<"4","p","x">> THEN K_sm
  ELSE IF radius = V_6px \/ radius = <<"8","p","x">> THEN K_md
  ELSE IF radius = V_12px THEN K_lg
  ELSE IF radius = <<"1","6","p","x">> THEN K_xl
  ELSE IF radius = V_9999px THEN K_full
  ELSE K_md

-----------------------------------------------------------------------------
(* StyleExtractor: utility classes and configuration tables
   (styleExtractor.js 74-172, 248-286) *)

\* styles.prop: undefined when the object has no such key
Prop(styles, prop) ==
  IF prop \in DOMAIN styles THEN styles[prop] ELSE Undefined

\* if (cond) classes.push(cls)
PushIf(cond, cls) == IF cond THEN <<cls>> ELSE << >>

\* const c = map(...); if (c) classes.push(`${prefix}${c}`)
PushMapped(prefix, mapped) ==
  IF Truthy(mapped) THEN <<prefix \o mapped>> ELSE << >>

convertToTailwind(styles) ==
  IF DOMAIN styles = {} THEN << >>
  ELSE LET display == Prop(styles, "display")
           flexDirection == Prop(styles, "flexDirection")
           justifyContent == Prop(styles, "justifyContent")
           alignItems == Prop(styles, "alignItems")
           fontWeight == Prop(styles, "fontWeight")
           boxShadow == Prop(styles, "boxShadow")
           position == Prop(styles, "position")
           opacity == Prop(styles, "opacity")
       IN PushIf(display = K_flex, <<"f","l","e","x">>)
          \o PushIf(display = K_grid, <<"g","r","i","d">>)
          \o PushIf(display = K_block, <<"b","l","o","c","k">>)
          \o PushIf(display = K_inlineBlock, <<"i","n","l","i","n","e","-","b","l","o","c","k">>)
          \o PushIf(display = K_none, <<"h","i","d","d","e","n">>)
          \o PushIf(flexDirection = <<"c","o","l","u","m","n">>, <<"f","l","e","x","-","c","o","l">>)
          \o PushIf(flexDirection = K_row, <<"f","l","e","x","-","r","o","w">>)
          \o PushIf(justifyContent = <<"c","e","n","t","e","r">>, <<"j","u","s","t","i","f","y","-","c","e","n","t","e","r">>)
          \o PushIf(justifyContent = <<"s","p","a","c","e","-","b","e","t","w","e","e","n">>, <<"j","u","s","t","i","f","y","-","b","e","t","w","e","e","n">>)
          \o PushIf(justifyContent = <<"f","l","e","x","-","s","t","a","r","t">>, <<"j","u","s","t","i","f","y","-","s","t","a","r","t">>)
          \o PushIf(justifyContent = <<"f","l","e","x","-","e","n","d">>, <<"j","u","s","t","i","f","y","-","e","n","d">>)
          \o PushIf(alignItems = <<"c","e","n","t","e","r">>, <<"i","t","e","m","s","-","c","e","n","t","e","r">>)
          \o PushIf(alignItems = <<"f","l","e","x","-","s","t","a","r","t">>, <<"i","t","e","m","s","-","s","t","a","r","t">>)
          \o PushIf(alignItems = <<"f","l","e","x","-","e","n","d">>, <<"i","t","e","m","s","-","e","n","d">>)
          \o PushMapped(<<"g","a","p","-">>, mapSpacing(Prop(styles, "gap")))
          \o PushMapped(<<"p","-">>, mapSpacing(Prop(styles, "padding")))
          \o PushMapped(<<"m","-">>, mapSpacing(Prop(styles, "margin")))
          \o PushIf(Prop(styles, "width") = <<"1","0","0","%">>, <<"w","-","f","u","l","l">>)
          \o PushIf(Prop(styles, "height") = <<"1","0","0","%">>, <<"h","-","f","u","l","l">>)
          \o PushMapped(<<"b","g","-">>, mapColor(Prop(styles, "backgroundColor")))
          \o PushMapped(<<"t","e","x","t","-">>, mapColor(Prop(styles, "color")))
          \o PushMapped(<<"t","e","x","t","-">>, mapFontSize(Prop(styles, "fontSize")))
          \o PushIf(fontWeight = <<"b","o","l","d">> \/ fontWeight = <<"7","0","0">>, <<"f","o","n","t","-","b","o","l","d">>)
          \o PushIf(fontWeight = <<"6","0","0">>, <<"f","o","n","t","-","s","e","m","i","b","o","l","d">>)
          \o PushIf(fontWeight = <<"5","0","0">>, <<"f","o","n","t","-","m","e","d","i","u","m">>)
          \o PushMapped(<<"r","o","u","n","d","e","d","-">>, mapBorderRadius(Prop(styles, "borderRadius")))
          \o PushIf(Truthy(boxShadow) /\ boxShadow # K_none, <<"s","h","a","d","o","w","-","m","d">>)
          \o PushIf(position = <<"a","b","s","o","l","u","t","e">>, <<"a","b","s","o","l","u","t","e">>)
          \o PushIf(position = <<"r","e","l","a","t","i","v","e">>, <<"r","e","l","a","t","i","v","e">>)
          \o PushIf(position = <<"f","i","x","e","d">>, <<"f","i","x","e","d">>)
          \o PushIf(opacity = <<"0",".","5">>, <<"o","p","a","c","i","t","y","-","5","0">>)
          \o PushIf(opacity = <<"0",".","7","5">>, <<"o","p","a","c","i","t","y","-","7","5">>)

\* node.id ? `#${node.id}` : node.classes?.[0] ? `.${node.classes[0]}` : node.tag
Selector(n) ==
  IF Truthy(n.id) THEN <<"#">> \o n.id
  ELSE IF Len(n.classes) > 0 /\ Truthy(n.classes[1]) THEN <<".">> \o n.classes[1]
  ELSE n.tag

\* traverse of extractStylesFromDOM: the entries pushed so far, in push order
RECURSIVE traverseStyles(_, _)
traverseStyles(n, styles) ==
  LET here == IF DOMAIN n.styles # {}
                THEN Append(styles, [selector |-> Selector(n),
                                     styles |-> n.styles,
                                     tailwindClasses |-> convertToTailwind(n.styles)])
                ELSE styles
      kids[i \in 0..Len(n.children)] ==
        IF i = 0 THEN here ELSE traverseStyles(n.children[i], kids[i - 1])
  IN kids[Len(n.children)]

extractStylesFromDOM(domTree) == traverseStyles(domTree, << >>)

\* const colors = {}
NoEntries == [k \in {} |-> Undefined]

\* table[mapped] = raw
Put(table, k, v) ==
  [x \in (DOMAIN table) \cup {k} |-> IF x = k THEN v ELSE table[x]]

\* the forEach that keeps the first raw value filed under a token
FillTable_FirstWins(raws, mapped) ==
  LET t[i \in 0..Len(raws)] ==
        IF i = 0 THEN NoEntries
        ELSE IF Truthy(mapped[i]) /\ mapped[i] \notin DOMAIN t[i - 1]
          THEN Put(t[i - 1], mapped[i], raws[i])
        ELSE t[i - 1]
  IN t[Len(raws)]

\* raws.forEach(raw => { const mapped = ...; if (mapped) table[mapped] = raw }),
\* mapped[i] being the token of raws[i]
FillTable(raws, mapped) ==
  LET t[i \in 0..Len(raws)] ==
        IF i = 0 THEN NoEntries
        ELSE IF Truthy(mapped[i]) THEN Put(t[i - 1], mapped[i], raws[i])
        ELSE t[i - 1]
  IN t[Len(raws)]

\* generateTailwindConfig that files an unmapped raw value under the key "null"
generateTailwindConfig_KeepsNull(designTokens) ==
  LET Keyed(v) == IF v = Null THEN <<"n","u","l","l">> ELSE v
      fs == designTokens.fontSizes
      sp == designTokens.spacing
      co == designTokens.colors
  IN [theme |-> [extend |->
       [colors |-> FillTable(co, [i \in 1..Len(co) |-> Keyed(mapColor(co[i]))]),
        fontSize |-> FillTable(fs, [i \in 1..Len(fs) |-> Keyed(mapFontSize(fs[i]))]),
        spacing |-> FillTable(sp, [i \in 1..Len(sp) |-> Keyed(mapSpacing(sp[i]))])]]]

generateTailwindConfig(designTokens) ==
  LET co == designTokens.colors
      fs == designTokens.fontSizes
      sp == designTokens.spacing
  IN [theme |-> [extend |->
       [colors |-> FillTable(co, [i \in 1..Len(co) |-> mapColor(co[i])]),
        fontSize |-> FillTable(fs, [i \in 1..Len(fs) |-> mapFontSize(fs[i])]),
        spacing |-> FillTable(sp, [i \in 1..Len(sp) |-> mapSpacing(sp[i])])]]]

-----------------------------------------------------------------------------
(* ComponentMapper (styleExtractor.js 294-499) *)

K_secondary == <<"s","e","c","o","n","d","a","r","y">>
K_danger == <<"d","a","n","g","e","r">>
K_destructive == <<"d","e","s","t","r","u","c","t","i","v","e">>
K_ghost == <<"g","h","o","s","t">>
K_large == <<"l","a","r","g","e">>
K_small == <<"s","m","a","l","l">>
K_email == <<"e","m","a","i","l">>
K_password == <<"p","a","s","s","w","o","r","d">>
K_search == <<"s","e","a","r","c","h">>
K_number == <<"n","u","m","b","e","r">>
K_disabled == <<"d","i","s","a","b","l","e","d">>
K_Navigation == <<"N","a","v","i","g","a","t","i","o","n">>

\* (x.classes || []).join(' ').toLowerCase(); the records of the analyzer
\* carry the classes array of their node
JoinedClasses(x) == toLowerCase(join(x.classes, <<" ">>))

\* extractButtonVariant that looks for secondary before primary
extractButtonVariant_SecondaryFirst(component) ==
  LET classes == JoinedClasses(component)
  IN IF includes(classes, K_secondary) THEN "outline"
     ELSE IF includes(classes, K_primary) THEN "default"
     ELSE IF includes(classes, K_danger) \/ includes(classes, K_destructive)
       THEN "destructive"
     ELSE IF includes(classes, K_ghost) THEN "ghost"
     ELSE "default"

extractButtonVariant(component) ==
  LET classes == JoinedClasses(component)
  IN IF includes(classes, K_primary) THEN "default"
     ELSE IF includes(classes, K_secondary) THEN "outline"
     ELSE IF includes(classes, K_danger) \/ includes(classes, K_destructive)
       THEN "destructive"
     ELSE IF includes(classes, K_ghost) THEN "ghost"
     ELSE "default"

extractButtonSize(component) ==
  LET classes == JoinedClasses(component)
  IN IF includes(classes, K_lg) \/ includes(classes, K_large) THEN "lg"
     ELSE IF includes(classes, K_sm) \/ includes(classes, K_small) THEN "sm"
     ELSE "default"

extractInputType(component) ==
  LET classes == JoinedClasses(component)
  IN IF includes(classes, K_email) THEN "email"
     ELSE IF includes(classes, K_password) THEN "password"
     ELSE IF includes(classes, K_search) THEN "search"
     ELSE IF includes(classes, K_number) THEN "number"
     ELSE "text"

\* detectLayoutType that looks for flex before grid
detectLayoutType_FlexFirst(section) ==
  LET classes == JoinedClasses(section)
  IN IF includes(classes, K_flex) THEN "flex"
     ELSE IF includes(classes, K_grid) THEN "grid"
     ELSE "block"

\* The entries forEach hands over are section records, never a falsy value,
\* so the `if (!section) return 'flex'` of line 490 is never taken.
detectLayoutType(section) ==
  LET classes == JoinedClasses(section)
  IN IF includes(classes, K_grid) THEN "grid"
     ELSE IF includes(classes, K_flex) THEN "flex"
     ELSE "block"

\* hasFooter that asks for two children
hasFooter_AtLeastTwo(component) == component.childCount >= 2

hasFooter(component) == component.childCount > 2

\* if (!this.analysisReport.components) return []; otherwise the components of
\* the report with the given estimated type, in order.  A property the report
\* lacks is a field outside the domain of the record.
OfType(rep, type) ==
  IF "components" \notin DOMAIN rep THEN << >>
  ELSE SelectSeq(rep.components, LAMBDA comp : comp.estimatedType = type)

ButtonDescriptor(comp) ==
  [name |-> comp.name, originalTag |-> comp.tag, classes |-> comp.classes,
   reactComponent |-> "Button",
   props |-> [variant |-> extractButtonVariant(comp),
              size |-> extractButtonSize(comp),
              disabled |-> \E i \in 1..Len(comp.classes) :
                             includes(comp.classes[i], K_disabled)]]

mapButtonComponents(rep) ==
  LET picked == OfType(rep, "button")
  IN [i \in 1..Len(picked) |-> ButtonDescriptor(picked[i])]

FormDescriptor(comp) ==
  [name |-> comp.name, originalTag |-> comp.tag, classes |-> comp.classes,
   reactComponent |-> "Form", fields |-> << >>]

mapFormComponents(rep) ==
  LET picked == OfType(rep, "form")
  IN [i \in 1..Len(picked) |-> FormDescriptor(picked[i])]

NavigationDescriptor(section) ==
  [name |-> OrElse(section.id, K_Navigation), originalTag |-> section.tag,
   classes |-> section.classes, reactComponent |-> "Navigation",
   layout |-> detectLayoutType(section)]

\* mapNavigationComponents fed by the components of estimated type navigation
mapNavigationComponents_FromComponents(rep) ==
  LET picked == OfType(rep, "navigation")
  IN [i \in 1..Len(picked) |->
        [name |-> picked[i].name, originalTag |-> picked[i].tag,
         classes |-> picked[i].classes, reactComponent |-> "Navigation",
         layout |-> detectLayoutType(picked[i])]]

mapNavigationComponents(rep) ==
  LET picked == IF "sections" \notin DOMAIN rep THEN << >>
                ELSE SelectSeq(rep.sections,
                               LAMBDA section : section.purpose = "navigation")
  IN [i \in 1..Len(picked) |-> NavigationDescriptor(picked[i])]

CardDescriptor(comp) ==
  [name |-> comp.name, originalTag |-> comp.tag, classes |-> comp.classes,
   reactComponent |-> "Card", hasImage |-> comp.childCount > 0,
   hasFooter |-> hasFooter(comp)]

mapCardComponents(rep) ==
  LET picked == OfType(rep, "card")
  IN [i \in 1..Len(picked) |-> CardDescriptor(picked[i])]

ModalDescriptor(comp) ==
  [name |-> comp.name, originalTag |-> comp.tag, classes |-> comp.classes,
   reactComponent |-> "Dialog", hasCloseButton |-> TRUE]

mapModalComponents(rep) ==
  LET picked == OfType(rep, "modal")
  IN [i \in 1..Len(picked) |-> ModalDescriptor(picked[i])]

LayoutDescriptor(layout) ==
  [tag |-> layout.tag, id |-> layout.id, classes |-> layout.classes,
   layoutType |-> layout.layout.type, layoutProps |-> layout.layout,
   childCount |-> layout.childCount]

mapLayoutComponents(rep) ==
  LET picked == IF "layouts" \notin DOMAIN rep THEN << >> ELSE rep.layouts
  IN [i \in 1..Len(picked) |-> LayoutDescriptor(picked[i])]

InputDescriptor(comp) ==
  [name |-> comp.name, originalTag |-> comp.tag, classes |-> comp.classes,
   reactComponent |-> "Input", type |-> extractInputType(comp)]

mapInputComponents(rep) ==
  LET picked == OfType(rep, "input")
  IN [i \in 1..Len(picked) |-> InputDescriptor(picked[i])]

generateComponentMap(rep) ==
  [buttons |-> mapButtonComponents(rep),
   forms |-> mapFormComponents(rep),
   navigation |-> mapNavigationComponents(rep),
   cards |-> mapCardComponents(rep),
   modals |-> mapModalComponents(rep),
   layouts |-> mapLayoutComponents(rep),
   inputs |-> mapInputComponents(rep)]

-----------------------------------------------------------------------------
(* Snapshot trees: every ordered tree of exactly n nodes drawn from atoms *)

RECURSIVE TreesOf(_, _), ForestsOf(_, _)
TreesOf(atoms, n) ==
  {[a EXCEPT !.children = f] : a \in atoms, f \in ForestsOf(atoms, n - 1)}
ForestsOf(atoms, m) ==
  IF m = 0 THEN {<< >>}
  ELSE UNION {{<<t>> \o f : t \in TreesOf(atoms, j), f \in ForestsOf(atoms, m - j)} :
                j \in 1..m}

TreesUpTo(atoms, n) == UNION {TreesOf(atoms, k) : k \in 1..n}

-----------------------------------------------------------------------------
(* Values the variables hold while the operation that owns them is idle *)

IdleNode == Leaf(K_div, Undefined, << >>)
NoReport == [components |-> << >>, layouts |-> << >>,
             designTokens |-> << >>, repeatedPatterns |-> << >>,
             sections |-> << >>, timestamp |-> 0]
NoMap == << >>

-----------------------------------------------------------------------------
(* The component classifier applied to one node (specification SpecClassify) *)

T_Button == <<"B","u","t","t","o","n">>
T_x == <<"x">>
I_submitBtn == <<"s","u","b","m","i","t","B","t","n">>

ClassifyTags ==
  {K_button, K_nav, K_form, K_input, K_select, K_textarea, K_img, K_picture,
   K_card, K_modal, K_header, K_footer, K_aside, K_div}
ClassifyTokens == {T_Button, K_nav, K_menu, K_form, K_card, K_modal, K_dialog, T_x}
ClassifyIds == {Undefined, I_submitBtn, K_header, K_footer, K_sidebar}

ClassifyNodes ==
  {Leaf(t, i, c) : t \in ClassifyTags, i \in ClassifyIds,
                   c \in SeqsUpTo(ClassifyTokens, MaxClassTokens)}

InitClassify ==
  /\ pc = "input"
  /\ node \in ClassifyNodes
  /\ other = IdleNode
  /\ domData = IdleNode
  /\ report = NoReport
  /\ componentMap = NoMap
  /\ raw = Undefined
  /\ result = "none"

ApplyEstimateComponentType ==
  /\ pc = "input"
  /\ result' = estimateComponentType(node)
  /\ pc' = "returned"
  /\ UNCHANGED <<domData, report, componentMap, node, other, raw>>

NextClassify == ApplyEstimateComponentType

SpecClassify == InitClassify /\ [][NextClassify]_vars

-----------------------------------------------------------------------------
(* The signature applied to a pair of nodes (specification SpecSignature) *)

T_b == <<"b">>
T_aDotB == <<"a", ".", "b">>
T_bColon == <<"b", ":">>
T_aColonB == <<"a", ":", "b">>

SigTags == {K_a, T_aColonB}
SigTokens == {K_a, T_b, T_aDotB, T_bColon}

\* A node with k childless children
WithChildren(n, k) == [n EXCEPT !.children = [i \in 1..k |-> IdleNode]]

SigNodes ==
  {WithChildren(Leaf(t, Undefined, c), k) :
     t \in SigTags, c \in SeqsUpTo(SigTokens, MaxSigClasses),
     k \in 0..MaxSigChildren}

InitSignature ==
  /\ pc = "input"
  /\ node \in SigNodes
  /\ other \in SigNodes
  /\ domData = IdleNode
  /\ report = NoReport
  /\ componentMap = NoMap
  /\ raw = Undefined
  /\ result = [a |-> << >>, b |-> << >>]

ApplyGenerateComponentSignature ==
  /\ pc = "input"
  /\ result' = [a |-> generateComponentSignature(node),
                b |-> generateComponentSignature(other)]
  /\ pc' = "returned"
  /\ UNCHANGED <<domData, report, componentMap, node, other, raw>>

NextSignature == ApplyGenerateComponentSignature

SpecSignature == InitSignature /\ [][NextSignature]_vars

-----------------------------------------------------------------------------
(* The analysis run of the runner (part_003 632-647): generateAnalysisReport *)
(* on the captured snapshot, then generateComponentMap on the report        *)
(* (specification Spec)                                                     *)

I_hero == <<"h","e","r","o">>

A_div == Leaf(K_div, Undefined, << >>)
A_divHero == Leaf(K_div, I_hero, << >>)
A_container == Leaf(K_div, Undefined, <<K_container>>)
A_button == Leaf(K_button, Undefined, <<K_btn, K_btnPrimary>>)

AnalysisAtoms == {A_div, A_divHero, A_container, A_button}

Init ==
  /\ pc = "captured"
  /\ domData \in TreesUpTo(AnalysisAtoms, MaxNodes)
  /\ report = NoReport
  /\ componentMap = NoMap
  /\ node = IdleNode
  /\ other = IdleNode
  /\ raw = Undefined
  /\ result = "none"

\* generateAnalysisReport whose walks shift the children off the root as they
\* visit them
GenerateAnalysisReport_ConsumesChildren ==
  /\ pc = "captured"
  /\ \E t \in 1..MaxClock : report' = generateAnalysisReport(domData, t)
  /\ pc' = "analyzed"
  /\ domData' = [domData EXCEPT !.children = << >>]
  /\ UNCHANGED <<componentMap, node, other, raw, result>>

GenerateAnalysisReport ==
  /\ pc = "captured"
  /\ \E t \in 1..MaxClock : report' = generateAnalysisReport(domData, t)
  /\ pc' = "analyzed"
  /\ UNCHANGED <<domData, componentMap, node, other, raw, result>>

GenerateComponentMap ==
  /\ pc \in {"analyzed", "styled", "partial"}
  /\ componentMap' = generateComponentMap(report)
  /\ pc' = "mapped"
  /\ UNCHANGED <<domData, report, node, other, raw, result>>

Next == GenerateAnalysisReport \/ GenerateComponentMap

Spec == Init /\ [][Next]_vars

-----------------------------------------------------------------------------
(* The pattern scan alone: detectRepeatedPatterns on a snapshot             *)
(* (specification SpecPatterns)                                             *)

PatternAtoms == {A_div, A_divHero}

InitPatterns ==
  /\ pc = "captured"
  /\ domData \in TreesUpTo(PatternAtoms, MaxPatternNodes)
  /\ report = NoReport
  /\ componentMap = NoMap
  /\ node = IdleNode
  /\ other = IdleNode
  /\ raw = Undefined
  /\ result = "none"

DetectRepeatedPatterns ==
  /\ pc = "captured"
  /\ report' = [report EXCEPT !.repeatedPatterns = detectRepeatedPatterns(domData)]
  /\ pc' = "patterns"
  /\ UNCHANGED <<domData, componentMap, node, other, raw, result>>

NextPatterns == DetectRepeatedPatterns

SpecPatterns == InitPatterns /\ [][NextPatterns]_vars

-----------------------------------------------------------------------------
(* The token scan alone: extractDesignTokens on a styled snapshot           *)
(* (specification SpecTokens)                                               *)

V_red == <<"r","g","b","(","2","5","5",","," ","0",","," ","0",")">>
V_blue == <<"r","g","b","(","0",","," ","0",","," ","2","5","5",")">>
V_4px == <<"4","p","x">>
V_8px == <<"8","p","x">>
V_14px == <<"1","4","p","x">>
V_16px == <<"1","6","p","x">>
V_400 == <<"4","0","0">>
V_700 == <<"7","0","0">>
V_shadow == <<"0","p","x"," ","1","p","x"," ","2","p","x"," ","r","e","d">>

Styled(n, styles) == [n EXCEPT !.styles = styles]

\* transparent background, padding equal to margin, no radius, no shadow
A_plain ==
  Styled(A_div,
    [display |-> K_block, backgroundColor |-> V_transparent, color |-> V_blue,
     fontSize |-> V_16px, fontWeight |-> V_400, padding |-> V_8px,
     margin |-> V_8px, borderRadius |-> V_0px, boxShadow |-> K_none])

\* background equal to color, a radius and a shadow
A_card ==
  Styled(A_container,
    [display |-> K_flex, backgroundColor |-> V_red, color |-> V_red,
     fontSize |-> V_14px, fontWeight |-> V_700, padding |-> V_8px,
     margin |-> V_0px, borderRadius |-> V_4px, boxShadow |-> V_shadow])

\* a partial styles object: transparent as the text colour, each excluded
\* literal under the other property
A_odd ==
  Styled(A_button,
    [color |-> V_transparent, fontSize |-> V_16px, padding |-> V_16px,
     margin |-> V_8px, borderRadius |-> K_none, boxShadow |-> V_0px])

TokenAtoms == {A_div, A_plain, A_card, A_odd}

InitTokens ==
  /\ pc = "captured"
  /\ domData \in TreesUpTo(TokenAtoms, MaxTokenNodes)
  /\ report = NoReport
  /\ componentMap = NoMap
  /\ node = IdleNode
  /\ other = IdleNode
  /\ raw = Undefined
  /\ result = "none"

ExtractDesignTokens ==
  /\ pc = "captured"
  /\ report' = [report EXCEPT !.designTokens = extractDesignTokens(domData)]
  /\ pc' = "tokens"
  /\ UNCHANGED <<domData, componentMap, node, other, raw, result>>

NextTokens == ExtractDesignTokens

SpecTokens == InitTokens /\ [][NextTokens]_vars

-----------------------------------------------------------------------------
(* The quantizers applied to one raw value (specification SpecQuant) *)

MaxPx == 100            \* largest magnitude of a raw "<n>px" value

Px(n) == NumToStr(n) \o <<"p","x">>

V_auto == <<"a","u","t","o">>
V_normal == <<"n","o","r","m","a","l">>
V_1em == <<"1","e","m">>
V_shorthand == <<"1","0","p","x"," ","2","0","p","x">>
V_fraction == <<"1",".","5","p","x">>

RawValues ==
  {Px(n) : n \in 0..MaxPx}
    \cup {Undefined, << >>, V_auto, V_normal, V_1em, V_shorthand, V_fraction}

InitQuant ==
  /\ pc = "input"
  /\ raw \in RawValues
  /\ result = Null
  /\ domData = IdleNode
  /\ report = NoReport
  /\ componentMap = NoMap
  /\ node = IdleNode
  /\ other = IdleNode

ApplyMapSpacing ==
  /\ pc = "input"
  /\ result' = mapSpacing(raw)
  /\ pc' = "spacing"
  /\ UNCHANGED <<domData, report, componentMap, node, other, raw>>

ApplyMapFontSize ==
  /\ pc = "input"
  /\ result' = mapFontSize(raw)
  /\ pc' = "fontSize"
  /\ UNCHANGED <<domData, report, componentMap, node, other, raw>>

NextQuant == ApplyMapSpacing \/ ApplyMapFontSize

SpecQuant == InitQuant /\ [][NextQuant]_vars

-----------------------------------------------------------------------------
(* mapColor applied to one raw colour (specification SpecColor) *)

Channels == {0, 5, 59, 130, 246, 255}

Separators == {<< >>, <<" ">>}

\* the text getComputedStyle prints for a colour, with or without the blank
\* after each comma
RgbText(r, g, b, s1, s2) ==
  <<"r","g","b","(">> \o NumToStr(r) \o <<",">> \o s1 \o NumToStr(g) \o <<",">> \o s2
    \o NumToStr(b) \o <<")">>

V_upperWhite == <<"#","F","F","F","F","F","F">>
V_upperBlue == <<"#","3","B","8","2","F","6">>
V_nearWhite == <<"#","f","f","f","f","f","e">>
V_nearBlack == <<"r","g","b","(","0",","," ","0",","," ","1",")">>
V_nearBlue == <<"r","g","b","(","5","9",","," ","1","3","0",","," ","2","4","5",")">>
V_rgbaWhite == <<"r","g","b","a","(","2","5","5",","," ","2","5","5",","," ","2","5","5",","," ","1",")">>
V_upperRgb == <<"R","G","B","(","0",","," ","0",","," ","0",")">>
V_bigChannel == <<"r","g","b","(","2","5","6",","," ","0",","," ","0",")">>
V_namedWhite == <<"w","h","i","t","e">>
V_shortWhite == <<"#","f","f","f">>
V_border == <<"1","p","x"," ","s","o","l","i","d"," ","r","g","b","(","0",","," ","0",","," ","0",")">>

RawColors ==
  {colorMap[i].key : i \in 1..Len(colorMap)}
    \cup {RgbText(r, g, b, s1, s2) :
            r \in Channels, g \in Channels, b \in Channels,
            s1 \in Separators, s2 \in Separators}
    \cup {Undefined, << >>, V_transparent, V_upperWhite, V_upperBlue,
          V_nearWhite, V_nearBlack, V_nearBlue, V_rgbaWhite, V_upperRgb,
          V_bigChannel, V_namedWhite, V_shortWhite, V_border}

InitColor ==
  /\ pc = "input"
  /\ raw \in RawColors
  /\ result = Null
  /\ domData = IdleNode
  /\ report = NoReport
  /\ componentMap = NoMap
  /\ node = IdleNode
  /\ other = IdleNode

ApplyMapColor ==
  /\ pc = "input"
  /\ result' = mapColor(raw)
  /\ pc' = "color"
  /\ UNCHANGED <<domData, report, componentMap, node, other, raw>>

NextColor == ApplyMapColor

SpecColor == InitColor /\ [][NextColor]_vars

-----------------------------------------------------------------------------
(* mapBorderRadius applied to one raw radius (specification SpecRadius) *)

V_percent == <<"5","0","%">>
V_zeroPercent == <<"0","%">>
V_twoRadii == <<"4","p","x"," ","8","p","x">>

RawRadii ==
  RawValues \cup {V_9999px, V_percent, V_zeroPercent, V_twoRadii, K_none}

InitRadius ==
  /\ pc = "input"
  /\ raw \in RawRadii
  /\ result = Null
  /\ domData = IdleNode
  /\ report = NoReport
  /\ componentMap = NoMap
  /\ node = IdleNode
  /\ other = IdleNode

ApplyMapBorderRadius ==
  /\ pc = "input"
  /\ result' = mapBorderRadius(raw)
  /\ pc' = "radius"
  /\ UNCHANGED <<domData, report, componentMap, node, other, raw>>

NextRadius == ApplyMapBorderRadius

SpecRadius == InitRadius /\ [][NextRadius]_vars

-----------------------------------------------------------------------------
(* The layout scan alone: analyzeLayoutPatterns on a styled snapshot        *)
(* (specification SpecLayouts)                                              *)

MaxLayoutNodes == 3     \* nodes of a snapshot tree of the layout run

K_column == <<"c","o","l","u","m","n">>
K_inline == <<"i","n","l","i","n","e">>

A_flex == Styled(A_div, [display |-> K_flex, flexDirection |-> K_row])
A_flexColumn == Styled(A_container, [display |-> K_flex, flexDirection |-> K_column])
\* a flex container whose styles carry no flexDirection, or an empty one
A_flexUnset == Styled(A_divHero, [display |-> K_flex])
A_flexEmpty == Styled(A_button, [display |-> K_flex, flexDirection |-> << >>])
A_grid == Styled(A_div, [display |-> K_grid])
A_block == Styled(A_div, [display |-> K_block])
A_inlineBlock == Styled(A_div, [display |-> K_inlineBlock])
A_hidden == Styled(A_div, [display |-> K_none])
A_inline == Styled(A_div, [display |-> K_inline])
\* a styles object without display
A_noDisplay == Styled(A_div, [color |-> V_red])

LayoutAtoms ==
  {A_div, A_flex, A_flexColumn, A_flexUnset, A_flexEmpty, A_grid, A_block,
   A_inlineBlock, A_hidden, A_inline, A_noDisplay}

InitLayouts ==
  /\ pc = "captured"
  /\ domData \in TreesUpTo(LayoutAtoms, MaxLayoutNodes)
  /\ report = NoReport
  /\ componentMap = NoMap
  /\ node = IdleNode
  /\ other = IdleNode
  /\ raw = Undefined
  /\ result = "none"

AnalyzeLayoutPatterns ==
  /\ pc = "captured"
  /\ report' = [report EXCEPT !.layouts = analyzeLayoutPatterns(domData)]
  /\ pc' = "layouts"
  /\ UNCHANGED <<domData, componentMap, node, other, raw, result>>

NextLayouts == AnalyzeLayoutPatterns

SpecLayouts == InitLayouts /\ [][NextLayouts]_vars

-----------------------------------------------------------------------------
(* The whole of analyzeUI (part_003 632-650) on a styled snapshot:           *)
(* generateAnalysisReport, extractStylesFromDOM, generateComponentMap,       *)
(* generateTailwindConfig (specification SpecPipeline).  extractedStyles and *)
(* tailwindConfig are the two fields analyzeUI adds to the report; they are  *)
(* kept in result.                                                          *)

MaxPipelineNodes == 3   \* nodes of a snapshot tree of the whole run

\* spacing and font size without a pixel magnitude
A_auto ==
  Styled(A_container,
    [display |-> K_flex, gap |-> V_normal, padding |-> V_1em,
     margin |-> V_auto, fontSize |-> V_normal, color |-> V_blue,
     backgroundColor |-> V_transparent])

PipelineAtoms == {A_div, A_card, A_odd, A_auto}

NoStyleOutput == [extractedStyles |-> << >>, tailwindConfig |-> Null]

InitPipeline ==
  /\ pc = "captured"
  /\ domData \in TreesUpTo(PipelineAtoms, MaxPipelineNodes)
  /\ report = NoReport
  /\ componentMap = NoMap
  /\ node = IdleNode
  /\ other = IdleNode
  /\ raw = Undefined
  /\ result = NoStyleOutput

ExtractStylesFromDOM ==
  /\ pc = "analyzed"
  /\ result' = [result EXCEPT !.extractedStyles = extractStylesFromDOM(domData)]
  /\ pc' = "styled"
  /\ UNCHANGED <<domData, report, componentMap, node, other, raw>>

GenerateTailwindConfig ==
  /\ pc = "mapped"
  /\ result' = [result EXCEPT
                  !.tailwindConfig = generateTailwindConfig(report.designTokens)]
  /\ pc' = "configured"
  /\ UNCHANGED <<domData, report, componentMap, node, other, raw>>

NextPipeline ==
  \/ GenerateAnalysisReport
  \/ ExtractStylesFromDOM
  \/ GenerateComponentMap
  \/ GenerateTailwindConfig

SpecPipeline == InitPipeline /\ [][NextPipeline]_vars

-----------------------------------------------------------------------------
(* The keyword rules of the component map on one button or one nav element  *)
(* (specification SpecKeywords)                                             *)

MaxKeywordClasses == 2  \* class tokens of the element of the keyword run

T_Primary == <<"B","t","n","-","P","R","I","M","A","R","Y">>
T_algebra == <<"a","l","g","e","b","r","a">>
T_btnLg == <<"b","t","n","-","l","g">>
T_gridFlex == <<"g","r","i","d","-","f","l","e","x">>
T_inlineFlex == <<"i","n","l","i","n","e","-","f","l","e","x">>

KeywordTokens ==
  {K_primary, K_secondary, K_danger, K_destructive, K_ghost, K_lg, K_sm,
   K_large, K_small, K_btn, T_Primary, T_algebra, T_btnLg, K_grid, K_flex,
   T_gridFlex, T_inlineFlex, K_disabled}

KeywordNodes ==
  {Leaf(tag, Undefined, classes) :
     tag \in {K_button, K_nav},
     classes \in SeqsUpTo(KeywordTokens, MaxKeywordClasses)}

InitKeywords ==
  /\ pc = "captured"
  /\ domData \in KeywordNodes
  /\ report = NoReport
  /\ componentMap = NoMap
  /\ node = IdleNode
  /\ other = IdleNode
  /\ raw = Undefined
  /\ result = "none"

NextKeywords == GenerateAnalysisReport \/ GenerateComponentMap

SpecKeywords == InitKeywords /\ [][NextKeywords]_vars

-----------------------------------------------------------------------------
(* The component map of a report that may lack components, sections or      *)
(* layouts (specification SpecMapper).  The snapshot is a root with up to    *)
(* MaxMapperChildren childless children.                                    *)

MaxMapperChildren == 3  \* children of the root of the mapper run

A_cardRoot == Styled(Leaf(K_div, Undefined, <<K_card>>), [display |-> K_flex])
A_navRoot == Leaf(K_nav, Undefined, << >>)
A_inputHero == Leaf(K_input, I_hero, << >>)
A_inputEmail == Leaf(K_input, Undefined, <<K_email>>)

MapperRoots == {A_cardRoot, A_container, A_navRoot}

MapperLeaves == {A_div, A_button, A_inputHero, A_inputEmail}

MapperTrees ==
  {[root EXCEPT !.children = kids] :
     root \in MapperRoots, kids \in SeqsUpTo(MapperLeaves, MaxMapperChildren)}

InitMapper ==
  /\ pc = "captured"
  /\ domData \in MapperTrees
  /\ report = NoReport
  /\ componentMap = NoMap
  /\ node = IdleNode
  /\ other = IdleNode
  /\ raw = Undefined
  /\ result = "none"

\* new ComponentMapper(analysisReport) on a report that was handed over
\* without some of components, sections and layouts
PartialReport ==
  /\ pc = "analyzed"
  /\ \E omitted \in (SUBSET {"components", "sections", "layouts"}) \ {{}} :
       report' = [f \in (DOMAIN report) \ omitted |-> report[f]]
  /\ pc' = "partial"
  /\ UNCHANGED <<domData, componentMap, node, other, raw, result>>

NextMapper == GenerateAnalysisReport \/ PartialReport \/ GenerateComponentMap

SpecMapper == InitMapper /\ [][NextMapper]_vars

-----------------------------------------------------------------------------
(* generateAnalysisReport run twice on one snapshot (specification          *)
(* SpecRerun): the second report is kept in result.  new Date() does not go *)
(* back between the runs and may read the same millisecond.                 *)

InitRerun ==
  /\ pc = "captured"
  /\ domData \in TreesUpTo(PipelineAtoms, MaxPipelineNodes)
  /\ report = NoReport
  /\ componentMap = NoMap
  /\ node = IdleNode
  /\ other = IdleNode
  /\ raw = Undefined
  /\ result = NoReport

GenerateAnalysisReportAgain ==
  /\ pc = "analyzed"
  /\ \E t \in report.timestamp..MaxClock :
       result' = generateAnalysisReport(domData, t)
  /\ pc' = "reanalyzed"
  /\ UNCHANGED <<domData, report, componentMap, node, other, raw>>

NextRerun == GenerateAnalysisReport \/ GenerateAnalysisReportAgain

SpecRerun == InitRerun /\ [][NextRerun]_vars

-----------------------------------------------------------------------------
(* generateAnalysisReport on what a caller may hand to the constructor in   *)
(* place of a snapshot: null, or a node object lacking some of its          *)
(* properties (specification SpecEmpty).  A property an object lacks is a    *)
(* field outside the domain of the record.                                  *)

\* the snapshot null
NullSnapshot == [null |-> TRUE]

NodeFields == {"tag", "id", "classes", "styles", "rect", "children"}

\* a container holding a button
A_toolbar == [A_container EXCEPT !.children = <<A_button>>]

\* node objects with any of their properties left out
PartialNodes ==
  {[f \in kept |-> n[f]] :
     n \in {A_divHero, A_button, A_navRoot, A_card, A_toolbar},
     kept \in SUBSET NodeFields}

\* The node as the walks read it once its signature was built: a missing
\* children array is no children (node.children?.length || 0, node.children
\* && ...), a missing styles object no styles (node.styles?.display,
\* if (node.styles)), a missing tag or id undefined.
RECURSIVE AsRead(_)
AsRead(n) ==
  LET kids == IF "children" \in DOMAIN n THEN n.children ELSE << >>
  IN [tag |-> IF "tag" \in DOMAIN n THEN n.tag ELSE Undefined,
      id |-> IF "id" \in DOMAIN n THEN n.id ELSE Undefined,
      classes |-> IF "classes" \in DOMAIN n THEN n.classes ELSE << >>,
      styles |-> IF "styles" \in DOMAIN n THEN n.styles ELSE NoStyles,
      rect |-> IF "rect" \in DOMAIN n THEN n.rect ELSE NoRect,
      children |-> [i \in 1..Len(kids) |-> AsRead(kids[i])]]

\* A walk throws a TypeError on the tree: node.classes.join of
\* generateComponentSignature (247) on a node without classes, or
\* node.tag.toLowerCase of estimateComponentType (280) on a component-like
\* node without tag.
RECURSIVE WalkThrows(_)
WalkThrows(n) ==
  \/ "classes" \notin DOMAIN n
  \/ "tag" \notin DOMAIN n /\ isComponentLike(AsRead(n))
  \/ "children" \in DOMAIN n
       /\ \E i \in 1..Len(n.children) : WalkThrows(n.children[i])

\* the report of a null snapshot: every walk returns at once (if (!node) return)
NullReport(t) ==
  [components |-> << >>, layouts |-> << >>, designTokens |-> EmptyTokens,
   repeatedPatterns |-> << >>, sections |-> << >>,
   timestamp |-> t]

InitEmpty ==
  /\ pc = "captured"
  /\ domData \in {NullSnapshot} \cup PartialNodes
  /\ report = NoReport
  /\ componentMap = NoMap
  /\ node = IdleNode
  /\ other = IdleNode
  /\ raw = Undefined
  /\ result = "none"

\* generateAnalysisReport returns a report
AnalysisReturns ==
  /\ pc = "captured"
  /\ domData = NullSnapshot \/ ~WalkThrows(domData)
  /\ \E t \in 1..MaxClock :
       report' = IF domData = NullSnapshot THEN NullReport(t)
                 ELSE generateAnalysisReport(AsRead(domData), t)
  /\ pc' = "analyzed"
  /\ UNCHANGED <<domData, componentMap, node, other, raw, result>>

\* generateAnalysisReport ends in a TypeError: no report is returned
AnalysisThrows ==
  /\ pc = "captured"
  /\ domData # NullSnapshot /\ WalkThrows(domData)
  /\ pc' = "threw"
  /\ UNCHANGED <<domData, report, componentMap, node, other, raw, result>>

NextEmpty == AnalysisReturns \/ AnalysisThrows

SpecEmpty == InitEmpty /\ [][NextEmpty]_vars

-----------------------------------------------------------------------------
(* generateAnalysisReport on a snapshot deeper than the depth limit of the   *)
(* section walk: a subtree under a chain of single-child ancestors           *)
(* (specification SpecDeep).  extractNode captures 20 levels below the       *)
(* root (extractDOM.js 25-26), identifyPageSections follows 10.              *)

MaxSpine == 10        \* single-child ancestors above the subtree
MaxDeepNodes == 2     \* nodes of the subtree

\* a link with flex display: a component, a layout, a repeated signature
A_link == Styled(Leaf(K_a, Undefined, <<K_btn>>), [display |-> K_flex, color |-> V_red])

\* a nav element that offers a font size
A_navText == Styled(A_navRoot, [fontSize |-> V_14px])

DeepAtoms == {A_link, A_navText, A_div}

SpineAtoms == {A_cardRoot, A_navRoot}

\* t under k ancestors a, each the only child of the one above
RECURSIVE Spine(_, _, _)
Spine(a, k, t) ==
  IF k = 0 THEN t ELSE [a EXCEPT !.children = <<Spine(a, k - 1, t)>>]

DeepTrees ==
  {Spine(a, k, t) : a \in SpineAtoms, k \in 0..MaxSpine,
                    t \in TreesUpTo(DeepAtoms, MaxDeepNodes)}

InitDeep ==
  /\ pc = "captured"
  /\ domData \in DeepTrees
  /\ report = NoReport
  /\ componentMap = NoMap
  /\ node = IdleNode
  /\ other = IdleNode
  /\ raw = Undefined
  /\ result = "none"

NextDeep == GenerateAnalysisReport \/ GenerateComponentMap

SpecDeep == InitDeep /\ [][NextDeep]_vars

-----------------------------------------------------------------------------
(* generateAnalysisReport on a node graph that may hold cycles: the         *)
(* constructor accepts any object, and a node reachable from itself through  *)
(* children is one (specification SpecCyclic).  A graph is a function from   *)
(* object identities to nodes whose children are identities; node 1 is the  *)
(* root.  Recursion is followed call by call up to the call stack the        *)
(* engine allows, beyond which the engine throws a RangeError.               *)

MaxGraphNodes == 3    \* node objects of a graph
StackLimit == 14      \* nested calls the engine allows (above the depth
                      \* limit of the section walk)

GraphNodes ==
  {[tag |-> t, children |-> c] :
     t \in {K_div, K_button}, c \in SeqsUpTo(1..MaxGraphNodes, 1)}

Graphs == [1..MaxGraphNodes -> GraphNodes]

\* hasInteractiveElements (268-276) at call depth d: "true", "false", or
\* "RangeError" when the recursion exhausts the stack.  some() stops at the
\* first child that answers true.
RECURSIVE hasInteractiveElementsIn(_, _, _)
hasInteractiveElementsIn(g, i, d) ==
  IF d > StackLimit THEN "RangeError"
  ELSE IF g[i].tag \in interactiveTags THEN "true"
  ELSE
    LET some[k \in 1..(Len(g[i].children) + 1)] ==
          IF k > Len(g[i].children) THEN "false"
          ELSE LET r == hasInteractiveElementsIn(g, g[i].children[k], d + 1)
               IN IF r = "false" THEN some[k + 1] ELSE r
    IN some[1]

\* analyzeComponentStructure.traverseNode (16-41) at call depth d, with the
\* visited set: the nodes visited so far in order, err when a call threw
RECURSIVE traverseComponentsIn(_, _, _, _)
traverseComponentsIn(g, i, d, acc) ==
  IF acc.err \/ i \in Range(acc.visited) THEN acc
  ELSE IF d > StackLimit
         \/ hasInteractiveElementsIn(g, i, d + 1) = "RangeError"
    THEN [acc EXCEPT !.err = TRUE]
  ELSE
    LET here == [acc EXCEPT !.visited = Append(@, i)]
        kids[k \in 0..Len(g[i].children)] ==
          IF k = 0 THEN here
          ELSE traverseComponentsIn(g, g[i].children[k], d + 1, kids[k - 1])
    IN kids[Len(g[i].children)]

\* traverseNode of analyzeLayoutPatterns (87-104), extractDesignTokens
\* (120-153) and detectRepeatedPatterns (171-183): the node, then each child,
\* with neither a visited set nor a depth limit
RECURSIVE traverseNodeIn(_, _, _, _)
traverseNodeIn(g, i, d, acc) ==
  IF acc.err THEN acc
  ELSE IF d > StackLimit THEN [acc EXCEPT !.err = TRUE]
  ELSE
    LET here == [acc EXCEPT !.visited = Append(@, i)]
        kids[k \in 0..Len(g[i].children)] ==
          IF k = 0 THEN here
          ELSE traverseNodeIn(g, g[i].children[k], d + 1, kids[k - 1])
    IN kids[Len(g[i].children)]

\* identifyPageSections.traverseNode (220-238): returns at depth > 10
RECURSIVE traverseSectionsIn(_, _, _, _)
traverseSectionsIn(g, i, depth, acc) ==
  IF acc.err \/ depth > MaxSectionDepth THEN acc
  ELSE IF depth + 1 > StackLimit THEN [acc EXCEPT !.err = TRUE]
  ELSE
    LET here == [acc EXCEPT !.visited = Append(@, i)]
        kids[k \in 0..Len(g[i].children)] ==
          IF k = 0 THEN here
          ELSE traverseSectionsIn(g, g[i].children[k], depth + 1, kids[k - 1])
    IN kids[Len(g[i].children)]

NoVisits == [visited |-> << >>, err |-> FALSE]

\* the walks in the order generateAnalysisReport calls them (315-319)
WalkOrder == <<"components", "layouts", "designTokens", "repeatedPatterns", "sections">>

WalkIn(g, walk) ==
  CASE walk = "components" -> traverseComponentsIn(g, 1, 1, NoVisits)
    [] walk = "sections" -> traverseSectionsIn(g, 1, 0, NoVisits)
    [] OTHER -> traverseNodeIn(g, 1, 1, NoVisits)

InitCyclic ==
  /\ pc = "captured"
  /\ domData \in Graphs
  /\ report = NoReport
  /\ componentMap = NoMap
  /\ node = IdleNode
  /\ other = IdleNode
  /\ raw = Undefined
  /\ result = << >>

\* the next walk of generateAnalysisReport returns: result gains the nodes it
\* visited; after the last walk the report is returned
WalkReturns ==
  /\ pc = "captured"
  /\ Len(result) < Len(WalkOrder)
  /\ LET walk == WalkOrder[Len(result) + 1]
         done == WalkIn(domData, walk)
     IN /\ ~done.err
        /\ result' = Append(result, done.visited)
  /\ pc' = IF Len(result') = Len(WalkOrder) THEN "analyzed" ELSE "captured"
  /\ UNCHANGED <<domData, report, componentMap, node, other, raw>>

\* the next walk ends in a RangeError, which leaves generateAnalysisReport
WalkOverflows ==
  /\ pc = "captured"
  /\ Len(result) < Len(WalkOrder)
  /\ WalkIn(domData, WalkOrder[Len(result) + 1]).err
  /\ pc' = "threw"
  /\ UNCHANGED <<domData, report, componentMap, node, other, raw, result>>

NextCyclic == WalkReturns \/ WalkOverflows

SpecCyclic == InitCyclic /\ [][NextCyclic]_vars

-----------------------------------------------------------------------------
(* The five walks of one analysis run side by side, one node at a time in    *)
(* any interleaving, while a second analysis of the same snapshot runs       *)
(* (specification SpecInterleave).  Each walk owns its accumulator (const    *)
(* components = [], const layouts = [], const tokens, const nodeSignatures,  *)
(* const sections) and its place in the tree; node holds, per walk, how many *)
(* nodes it has visited, report the accumulators, other the report of the    *)
(* second analysis.                                                          *)

MaxWalkNodes == 2     \* nodes of the snapshot the walks share

Walks == {"components", "layouts", "designTokens", "repeatedPatterns", "sections"}

\* the accumulators as the walks declare them
NoAccumulators ==
  [components |-> << >>, layouts |-> << >>, designTokens |-> EmptyTokens,
   repeatedPatterns |-> << >>, sections |-> << >>, timestamp |-> 0]

\* the calls of traverseNode in the order every walk makes them: the node,
\* then each child in turn (children.forEach), each with its depth
RECURSIVE visitOrder(_, _, _)
visitOrder(n, depth, calls) ==
  LET here == Append(calls, [n |-> n, depth |-> depth])
      kids[i \in 0..Len(n.children)] ==
        IF i = 0 THEN here ELSE visitOrder(n.children[i], depth + 1, kids[i - 1])
  IN kids[Len(n.children)]

\* the body of one call of traverseNode of walk w, before the children: the
\* accumulator of the walk after the visit
VisitNode(w, acc, call) ==
  LET n == call.n
  IN CASE w = "components" ->
            IF isComponentLike(n) THEN Append(acc, ComponentRecord(n)) ELSE acc
       [] w = "layouts" ->
            IF detectLayout(n).type # "null"
              THEN Append(acc, [tag |-> n.tag, id |-> n.id, classes |-> n.classes,
                                layout |-> detectLayout(n),
                                childCount |-> ChildCount(n)])
              ELSE acc
       [] w = "designTokens" ->
            IF DOMAIN n.styles # {} THEN AddNodeTokens(n, acc) ELSE acc
       [] w = "repeatedPatterns" -> Append(acc, n)
       [] w = "sections" ->
            IF call.depth <= MaxSectionDepth /\ n.tag \in sectionSelectors
              THEN Append(acc, [tag |-> n.tag, id |-> n.id, classes |-> n.classes,
                                rect |-> n.rect, childCount |-> ChildCount(n),
                                purpose |-> identifySectionPurpose(n)])
              ELSE acc

InterleaveAtoms == {A_link, A_navText}

InitInterleave ==
  /\ pc = "walking"
  /\ domData \in TreesUpTo(InterleaveAtoms, MaxWalkNodes)
  /\ report = NoAccumulators
  /\ componentMap = NoMap
  /\ node = [w \in Walks |-> 0]
  /\ other = NoReport
  /\ raw = Undefined
  /\ result = "none"

\* a second analysis that accumulates in the arrays of the first
AnalyzeAtOnce_SharedAccumulators ==
  /\ pc = "walking"
  /\ other = NoReport
  /\ \E t \in 1..MaxClock : other' = generateAnalysisReport(domData, t)
  /\ report' = [report EXCEPT !.components = @ \o analyzeComponentStructure(domData)]
  /\ UNCHANGED <<pc, domData, componentMap, node, raw, result>>

\* new UIAnalyzer(dom).generateAnalysisReport() by a second caller
AnalyzeAtOnce ==
  /\ pc = "walking"
  /\ other = NoReport
  /\ \E t \in 1..MaxClock : other' = generateAnalysisReport(domData, t)
  /\ UNCHANGED <<pc, domData, report, componentMap, node, raw, result>>

\* one walk visits its next node in pre-order
StepWalk ==
  /\ pc = "walking"
  /\ \E w \in Walks :
       /\ node[w] < Len(visitOrder(domData, 0, << >>))
       /\ node' = [node EXCEPT ![w] = @ + 1]
       /\ report' = [report EXCEPT
                       ![w] = VisitNode(w, @, visitOrder(domData, 0, << >>)[node[w] + 1])]
  /\ UNCHANGED <<pc, domData, componentMap, other, raw, result>>

NextInterleave == StepWalk \/ AnalyzeAtOnce

SpecInterleave == InitInterleave /\ [][NextInterleave]_vars

-----------------------------------------------------------------------------
(* generateAnalysisReport and generateComponentMap on snapshots of landmark  *)
(* elements (specification SpecSections).  A node of these snapshots may      *)
(* carry the role attribute of its element; extractNode keeps href, src,     *)
(* alt, title, type, placeholder, name, value, disabled and readonly only    *)
(* (extractDOM.js 39-50), and no walk reads attributes.                      *)

MaxSectionNodes == 2   \* nodes of a snapshot of landmark elements

K_navigation == <<"n","a","v","i","g","a","t","i","o","n">>

\* a nav element inside the page header
A_navHeader == Leaf(K_nav, K_header, << >>)
\* a section styled as a navigation bar
A_sectionNav == Leaf(K_section, Undefined, <<K_nav>>)
A_header == Leaf(K_header, Undefined, << >>)
A_article == Leaf(K_article, Undefined, << >>)
\* a menu of links that is no landmark element
A_linkMenu == Leaf(K_a, Undefined, <<K_menu>>)
\* <div role="navigation">
A_roleNav ==
  [tag |-> K_div, id |-> Undefined, classes |-> << >>, styles |-> NoStyles,
   rect |-> NoRect, children |-> << >>, attributes |-> [role |-> K_navigation]]

\* mixed case in an id and in a class token
A_navSiteHeader == Leaf(K_nav, <<"S","i","t","e","H","e","a","d","e","r">>, << >>)
A_sectionNavBar == Leaf(K_section, Undefined, << <<"T","o","p","N","a","v","B","a","r">> >>)
A_headerNav == Leaf(K_header, Undefined, <<K_nav>>)

\* a menu of links laid out as a flex container
A_flexMenu == Styled(A_linkMenu, [display |-> K_flex])

SectionAtoms ==
  {A_navRoot, A_navHeader, A_sectionNav, A_header, A_article, A_linkMenu,
   A_roleNav, A_link, A_navSiteHeader, A_sectionNavBar, A_headerNav, A_button,
   A_flexMenu}

\* the snapshots: every small tree, and every atom at depth 11 under nav
\* elements
SectionTrees ==
  TreesUpTo(SectionAtoms, MaxSectionNodes)
    \cup {Spine(A_navRoot, MaxSectionDepth + 1, a) : a \in SectionAtoms}

InitSections ==
  /\ pc = "captured"
  /\ domData \in SectionTrees
  /\ report = NoReport
  /\ componentMap = NoMap
  /\ node = IdleNode
  /\ other = IdleNode
  /\ raw = Undefined
  /\ result = "none"

NextSections == GenerateAnalysisReport \/ GenerateComponentMap

SpecSections == InitSections /\ [][NextSections]_vars

-----------------------------------------------------------------------------
(* generateAnalysisReport on a node with or without an id, with class tokens *)
(* that hold punctuation, alone or over a button (specification SpecNames)   *)

MaxNameClasses == 2   \* class tokens of the named node

T_dashes == <<"-","-">>
I_mainNav == <<"m","a","i","n","-","n","a","v">>

NameTokens == {K_btnPrimary, T_aDotB, T_dashes, T_x}

NameNodes ==
  {Leaf(t, i, c) : t \in {K_div, K_button}, i \in {Undefined, I_mainNav},
                   c \in SeqsUpTo(NameTokens, MaxNameClasses)}

NameTrees == NameNodes \cup {[n EXCEPT !.children = <<A_button>>] : n \in NameNodes}

InitNames ==
  /\ pc = "captured"
  /\ domData \in NameTrees
  /\ report = NoReport
  /\ componentMap = NoMap
  /\ node = IdleNode
  /\ other = IdleNode
  /\ raw = Undefined
  /\ result = "none"

NextNames == GenerateAnalysisReport \/ GenerateComponentMap

SpecNames == InitNames /\ [][NextNames]_vars

-----------------------------------------------------------------------------
(* The quantizers applied to raw values with a fraction, another unit or a   *)
(* second component (specification SpecMagnitude).  Computed lengths are     *)
(* often fractional ("13.33px").                                             *)

RawMagnitudes ==
  {i \o f \o u \o r :
     i \in {<<"1">>, <<"1","0">>, <<"1","3">>},
     f \in {<< >>, <<".","5">>, <<".","3","3">>},
     u \in {<<"p","x">>, <<"e","m">>},
     r \in {<< >>, <<" ","2","0","p","x">>}}

InitMagnitude ==
  /\ pc = "input"
  /\ raw \in RawMagnitudes
  /\ result = Null
  /\ domData = IdleNode
  /\ report = NoReport
  /\ componentMap = NoMap
  /\ node = IdleNode
  /\ other = IdleNode

NextMagnitude == ApplyMapSpacing \/ ApplyMapFontSize

SpecMagnitude == InitMagnitude /\ [][NextMagnitude]_vars

-----------------------------------------------------------------------------
(* CloneRunner.run (part_003 536-578): captureBrowserData with             *)
(* ScreenCapture.initialize, captureFullPage and close, then the phases      *)
(* that follow (specification SpecRunner).  Every awaited call either        *)
(* resolves or rejects.  pc is the call about to be made, result the calls   *)
(* made so far with their outcome, other the browser of the ScreenCapture    *)
(* ("none" while this.browser is null), node the error being thrown up to    *)
(* run ("none" when there is none).                                          *)

\* the awaited calls of captureBrowserData in program order: initialize
\* (22-29), captureFullPage (38-73), the DOM extraction (594-597) and the
\* interaction capture (601-608)
CaptureCalls ==
  <<"launch", "newPage", "ensureDir",
    "goto.load", "goto.domcontentloaded", "waitForTimeout", "waitForSelector",
    "screenshot", "extractDOMStructure", "extractComputedStyles",
    "extractBoundingRectangles",
    "extractFullDOM", "extractComponentBoundaries", "extractPageStructure",
    "extractAccessibilityInfo",
    "captureHoverBehaviors", "captureClickableElements", "captureScrollBehavior",
    "captureFormElements", "captureInputElements", "captureModalDialogs",
    "captureMenuItems", "captureDataAttributes">>

\* the phases of run after the capture (548-564)
Phases ==
  <<"analyzeUI", "generateCode", "generateTests", "writeOutput", "generateReport">>

\* the calls whose rejection no handler inside captureFullPage catches
ThrowingCalls ==
  Range(CaptureCalls) \ {"launch", "goto.load", "waitForSelector"}

IndexIn(s, x) == CHOOSE i \in 1..Len(s) : s[i] = x

\* the call after c when c resolved; the finally block after the last one
CallAfter(c) ==
  IF c = CaptureCalls[Len(CaptureCalls)] THEN "close"
  ELSE CaptureCalls[IndexIn(CaptureCalls, c) + 1]

Called(call, ok) == [call |-> call, ok |-> ok]

InitRunner ==
  /\ pc = "launch"
  /\ result = << >>
  /\ other = "none"
  /\ node = "none"
  /\ domData = IdleNode
  /\ report = NoReport
  /\ componentMap = NoMap
  /\ raw = Undefined

\* this.browser = await chromium.launch(...)
Launch ==
  /\ pc = "launch"
  /\ \E ok \in BOOLEAN :
       /\ result' = Append(result, Called("launch", ok))
       /\ other' = IF ok THEN "open" ELSE "none"
       /\ node' = IF ok THEN "none" ELSE "launch"
       /\ pc' = IF ok THEN CallAfter("launch") ELSE "close"
  /\ UNCHANGED <<domData, report, componentMap, raw>>

\* page.goto with waitUntil 'load' that rethrows instead of falling back
GotoLoad_NoFallback ==
  /\ pc = "goto.load"
  /\ \E ok \in BOOLEAN :
       /\ result' = Append(result, Called("goto.load", ok))
       /\ node' = IF ok THEN "none" ELSE "goto.load"
       /\ pc' = IF ok THEN "waitForTimeout" ELSE "close"
  /\ UNCHANGED <<domData, report, componentMap, other, raw>>

\* page.goto(url, {waitUntil: 'load'}) inside its own try (37-49): a rejection
\* is caught and the second goto follows
GotoLoad ==
  /\ pc = "goto.load"
  /\ \E ok \in BOOLEAN :
       /\ result' = Append(result, Called("goto.load", ok))
       /\ pc' = IF ok THEN "waitForTimeout" ELSE "goto.domcontentloaded"
  /\ UNCHANGED <<domData, report, componentMap, node, other, raw>>

\* page.waitForSelector('body') inside its own try (55-59): a rejection is
\* swallowed
WaitForSelector ==
  /\ pc = "waitForSelector"
  /\ \E ok \in BOOLEAN : result' = Append(result, Called("waitForSelector", ok))
  /\ pc' = CallAfter("waitForSelector")
  /\ UNCHANGED <<domData, report, componentMap, node, other, raw>>

\* any other awaited call of captureBrowserData: a rejection is rethrown by
\* the catch of captureFullPage (84-87) where there is one and reaches the
\* finally block of captureBrowserData
AwaitCall ==
  /\ pc \in ThrowingCalls
  /\ \E ok \in BOOLEAN :
       /\ result' = Append(result, Called(pc, ok))
       /\ node' = IF ok THEN "none" ELSE pc
       /\ pc' = IF ok THEN CallAfter(pc) ELSE "close"
  /\ UNCHANGED <<domData, report, componentMap, other, raw>>

\* captureBrowserData without its finally block: the browser is closed after
\* a capture without error only
Close_OnSuccessOnly ==
  /\ pc = "close"
  /\ IF node = "none"
       THEN /\ result' = Append(result, Called("close", TRUE))
            /\ other' = IF other = "open" THEN "closed" ELSE other
       ELSE UNCHANGED <<result, other>>
  /\ pc' = IF node = "none" THEN Phases[1] ELSE "rejected"
  /\ UNCHANGED <<domData, report, componentMap, node, raw>>

\* finally { await capture.close() } (627-629) with close (320-324):
\* browser.close() when this.browser is set; a rejection of close replaces
\* the error on its way, the browser process being gone either way.  The
\* catch of run (574-577) rethrows.
Close ==
  /\ pc = "close"
  /\ \E ok \in (IF other = "open" THEN BOOLEAN ELSE {TRUE}) :
       /\ result' = Append(result, Called("close", ok))
       /\ other' = IF other = "open" THEN "closed" ELSE other
       /\ node' = IF ok THEN node ELSE "close"
       /\ pc' = IF ok /\ node = "none" THEN Phases[1] ELSE "rejected"
  /\ UNCHANGED <<domData, report, componentMap, raw>>

\* a phase of run after the capture: resolved, the next one starts; rejected,
\* the catch of run rethrows
RunPhase ==
  /\ pc \in Range(Phases)
  /\ \E ok \in BOOLEAN :
       /\ result' = Append(result, Called(pc, ok))
       /\ node' = IF ok THEN "none" ELSE pc
       /\ pc' = IF ~ok THEN "rejected"
                ELSE IF pc = Phases[Len(Phases)] THEN "resolved"
                ELSE Phases[IndexIn(Phases, pc) + 1]
  /\ UNCHANGED <<domData, report, componentMap, other, raw>>

NextRunner ==
  \/ Launch
  \/ GotoLoad
  \/ WaitForSelector
  \/ AwaitCall
  \/ Close
  \/ RunPhase

SpecRunner == InitRunner /\ [][NextRunner]_vars

-----------------------------------------------------------------------------
(* analyzeUI on snapshots whose palette holds several raw values of one      *)
(* token (specification SpecConfig)                                          *)

MaxConfigNodes == 3   \* nodes of a snapshot with a crowded palette

V_white == <<"r","g","b","(","2","5","5",","," ","2","5","5",","," ","2","5","5",")">>
V_blue500 == <<"r","g","b","(","5","9",","," ","1","3","0",","," ","2","4","6",")">>

\* white under blue text, values that are dictionary keys
A_panel ==
  Styled(A_container,
    [backgroundColor |-> V_white, color |-> V_blue500, fontSize |-> V_14px,
     padding |-> V_8px, margin |-> V_0px])

\* white again in another notation, and values near those of A_panel
A_nearPanel ==
  Styled(A_div,
    [backgroundColor |-> V_upperWhite, color |-> V_red, fontSize |-> Px(15),
     padding |-> Px(9), margin |-> Px(10)])

ConfigAtoms == {A_panel, A_nearPanel, A_auto}

InitConfig ==
  /\ pc = "captured"
  /\ domData \in TreesUpTo(ConfigAtoms, MaxConfigNodes)
  /\ report = NoReport
  /\ componentMap = NoMap
  /\ node = IdleNode
  /\ other = IdleNode
  /\ raw = Undefined
  /\ result = NoStyleOutput

SpecConfig == InitConfig /\ [][NextPipeline]_vars

-----------------------------------------------------------------------------
(* The nodes of a tree by position, independently of the walks: a position  *)
(* is the sequence of child indices leading from the root to the node, and  *)
(* pre-order is the order of positions with a prefix first.                 *)

RECURSIVE NodeAt(_, _)
NodeAt(n, p) == IF p = << >> THEN n ELSE NodeAt(n.children[Head(p)], Tail(p))

RECURSIVE PositionsOf(_)
PositionsOf(n) ==
  {<< >>} \cup UNION {{<<i>> \o q : q \in PositionsOf(n.children[i])} :
                        i \in 1..Len(n.children)}

RECURSIVE PositionBefore(_, _)
PositionBefore(p, q) ==
  IF p = << >> THEN q # << >>
  ELSE IF q = << >> THEN FALSE
  ELSE IF Head(p) # Head(q) THEN Head(p) < Head(q)
  ELSE PositionBefore(Tail(p), Tail(q))

\* The positions of n in pre-order
PreOrderOf(n) ==
  LET ps == PositionsOf(n)
  IN [k \in 1..Cardinality(ps) |->
        CHOOSE p \in ps : Cardinality({q \in ps : PositionBefore(q, p)}) = k - 1]

\* How many elements of sequence s satisfy F
CountSeq(s, F(_)) == Cardinality({i \in 1..Len(s) : F(s[i])})

RECURSIVE SumOver(_, _)
SumOver(f, S) ==
  IF S = {} THEN 0
  ELSE LET x == CHOOSE x \in S : TRUE IN f[x] + SumOver(f, S \ {x})

-----------------------------------------------------------------------------
(* The ordered rule list of the classifier, as data *)

SemanticTypes ==
  {"button", "navigation", "form", "input", "image", "card", "modal",
   "header", "footer", "sidebar", "container"}

ClassifierRules ==
  << [type |-> "button", tags |-> {K_button}, cls |-> {K_button}, ids |-> {K_btn}],
     [type |-> "navigation", tags |-> {K_nav}, cls |-> {K_nav, K_menu}, ids |-> {}],
     [type |-> "form", tags |-> {K_form}, cls |-> {K_form}, ids |-> {}],
     [type |-> "input", tags |-> {K_input, K_select, K_textarea}, cls |-> {}, ids |-> {}],
     [type |-> "image", tags |-> {K_img, K_picture}, cls |-> {}, ids |-> {}],
     [type |-> "card", tags |-> {K_card}, cls |-> {K_card}, ids |-> {}],
     [type |-> "modal", tags |-> {K_modal}, cls |-> {K_modal, K_dialog}, ids |-> {}],
     [type |-> "header", tags |-> {K_header}, cls |-> {}, ids |-> {K_header}],
     [type |-> "footer", tags |-> {K_footer}, cls |-> {}, ids |-> {K_footer}],
     [type |-> "sidebar", tags |-> {K_aside}, cls |-> {}, ids |-> {K_sidebar}] >>

RuleHolds(r, n) ==
  \/ n.tag \in r.tags
  \/ \E k \in r.cls : includes(toLowerCase(join(n.classes, <<" ">>)), k)
  \/ \E k \in r.ids : n.id # Undefined /\ includes(toLowerCase(n.id), k)

FirstRuleType(n) ==
  LET holding == {i \in 1..Len(ClassifierRules) : RuleHolds(ClassifierRules[i], n)}
  IN IF holding = {} THEN "container"
     ELSE ClassifierRules[CHOOSE i \in holding : \A j \in holding : i <= j].type

\* C1: estimateComponentType returns, for every node, the type of the first
\* rule (button, navigation, form, input, image, card, modal, header, footer,
\* sidebar) whose predicate on (tag, space-joined lowercase classes, lowercase
\* id) holds, and container when none holds; the result is always one of the
\* 11 semantic types, and a node with tag button yields button whatever its
\* classes and id are.
C1_FirstRuleWins ==
  pc = "returned" =>
    /\ result = FirstRuleType(node)
    /\ result \in SemanticTypes
    /\ (node.tag = K_button => result = "button")

\* A button-tagged node carrying the class nav has been classified button.
C1_Witness ==
  /\ pc = "returned"
  /\ node.tag = K_button
  /\ node.classes = <<K_nav>>
  /\ result = "button"

-----------------------------------------------------------------------------
(* Injectivity of the signature *)

SameTriple(n, m) ==
  /\ n.tag = m.tag
  /\ n.classes = m.classes
  /\ ChildCount(n) = ChildCount(m)

\* C5 as stated: any two nodes that differ in tag, or in their class list, or
\* in their immediate child count, have different signatures.
C5_Injective ==
  pc = "returned" => (~SameTriple(node, other) => result.a # result.b)

\* A tag or class token that keeps the two separators of the signature apart:
\* no ":" in the tag, no "." in a class token, no empty class token.
PlainNames(n) ==
  /\ ":" \notin Range(n.tag)
  /\ \A i \in 1..Len(n.classes) :
       n.classes[i] # << >> /\ "." \notin Range(n.classes[i])

\* C5 (amended): two nodes that differ in immediate child count have different
\* signatures; two nodes that differ in tag or in class list have different
\* signatures provided no tag contains ":" and every class token is non-empty
\* and contains no ".".
C5_InjectiveOnPlainNames ==
  pc = "returned" =>
    /\ ChildCount(node) # ChildCount(other) => result.a # result.b
    /\ (PlainNames(node) /\ PlainNames(other) /\ ~SameTriple(node, other))
         => result.a # result.b

\* Two nodes with separator-free names that differ only in their class lists
\* got different signatures, and two nodes differing only in child count too.
C5_Witness ==
  /\ pc = "returned"
  /\ PlainNames(node) /\ PlainNames(other)
  /\ node.tag = other.tag
  /\ ChildCount(node) = ChildCount(other)
  /\ node.classes = <<K_a, T_b>>
  /\ other.classes = <<T_b, K_a>>
  /\ result.a # result.b

-----------------------------------------------------------------------------
(* The eligibility gate of the component scan *)

Descriptor(n) ==
  [tag |-> n.tag, id |-> n.id, classes |-> n.classes, childCount |-> Len(n.children)]

RecordDescriptor(r) ==
  [tag |-> r.tag, id |-> r.id, classes |-> r.classes, childCount |-> r.childCount]

HasIdOrClasses(n) == Truthy(n.id) \/ n.classes # << >>

\* n has an interactive node strictly below it
HasInteractiveDescendant(n) ==
  \E q \in PositionsOf(n) : q # << >> /\ NodeAt(n, q).tag \in interactiveTags

\* n is itself interactive or has an interactive node below it
IsOrHasInteractive(n) ==
  \E q \in PositionsOf(n) : NodeAt(n, q).tag \in interactiveTags

\* components holds exactly one record per node satisfying Eligible
ComponentsAreExactly(Eligible(_)) ==
  \A d \in {Descriptor(NodeAt(domData, p)) : p \in PositionsOf(domData)}
          \cup {RecordDescriptor(report.components[i]) :
                  i \in 1..Len(report.components)} :
    CountSeq(report.components, LAMBDA r : RecordDescriptor(r) = d)
      = Cardinality({p \in PositionsOf(domData) :
                       /\ Descriptor(NodeAt(domData, p)) = d
                       /\ Eligible(NodeAt(domData, p))})

EligibleAsClaimed(n) ==
  HasIdOrClasses(n) /\ (Len(n.children) > 0 \/ HasInteractiveDescendant(n))

EligibleAsCoded(n) ==
  HasIdOrClasses(n) /\ (Len(n.children) > 0 \/ IsOrHasInteractive(n))

\* C2 as stated: a node contributes a ComponentRecord iff it has an id or a
\* non-empty classes list and (it has a child or an interactive descendant).
C2_GateAsStated ==
  pc # "captured" => ComponentsAreExactly(EligibleAsClaimed)

\* C2 (amended): a node contributes a ComponentRecord iff it has an id or a
\* non-empty classes list and (it has at least one child, or it is itself an
\* interactive element (button, a, input, select, textarea) or contains one);
\* every other node is absent from components.
C2_Gate ==
  pc # "captured" => ComponentsAreExactly(EligibleAsCoded)

\* A tree with a childless classed button (recorded), a classed childless div
\* (not recorded) and an unclassed parent (not recorded) has been analysed.
C2_Witness ==
  /\ pc = "analyzed"
  /\ domData = [A_div EXCEPT !.children = <<A_button, A_container>>]
  /\ Len(report.components) = 1
  /\ report.components[1].tag = K_button

-----------------------------------------------------------------------------
(* The end-to-end scenario *)

E2ETree == [A_container EXCEPT !.children = <<A_button, A_button, A_button>>]

S_buttonSig ==
  <<"b","u","t","t","o","n",":","b","t","n",".","b","t","n","-","p","r","i",
    "m","a","r","y",":","0">>

\* C3: for the tree div.container > 3 x button.btn.btn-primary, the analysis
\* followed by the component map yields exactly 3 ComponentRecords of type
\* button, each mapped to a Button descriptor of variant default;
\* repeatedPatterns has the key "button:btn.btn-primary:0" with count 3; and
\* layouts is empty.
C3_EndToEnd ==
  (pc = "mapped" /\ domData = E2ETree) =>
    /\ CountSeq(report.components, LAMBDA r : r.estimatedType = "button") = 3
    /\ Len(componentMap.buttons) = 3
    /\ \A i \in 1..Len(componentMap.buttons) :
         /\ componentMap.buttons[i].props.variant = "default"
         /\ componentMap.buttons[i].originalTag = K_button
         /\ componentMap.buttons[i].classes = <<K_btn, K_btnPrimary>>
    /\ S_buttonSig \in DOMAIN report.repeatedPatterns
    /\ report.repeatedPatterns[S_buttonSig].count = 3
    /\ report.layouts = << >>
    /\ componentMap.layouts = << >>

\* The end-to-end tree has been analysed and mapped.
C3_Witness ==
  /\ pc = "mapped"
  /\ domData = E2ETree
  /\ Len(componentMap.buttons) = 3

-----------------------------------------------------------------------------
(* The signature of a record *)

SignatureString(tag, classes, count) ==
  tag \o <<":">> \o join(classes, <<".">>) \o <<":">> \o NumToStr(count)

\* C4: the signature of a node is tag ":" classes-joined-by-"." ":" child
\* count and depends on nothing else: two nodes of the tree with the same tag,
\* class list and child count have the same signature whatever their id,
\* subtree or position; and every ComponentRecord's signature is that string
\* built from the record's own tag, classes and childCount.
C4_SignatureFromTriple ==
  pc # "captured" =>
    /\ \A i \in 1..Len(report.components) :
         LET r == report.components[i]
         IN r.signature = SignatureString(r.tag, r.classes, r.childCount)
    /\ \A p \in PositionsOf(domData) :
         LET n == NodeAt(domData, p)
         IN generateComponentSignature(n)
              = SignatureString(n.tag, n.classes, Len(n.children))
    /\ \A p, q \in PositionsOf(domData) :
         SameTriple(NodeAt(domData, p), NodeAt(domData, q)) =>
           generateComponentSignature(NodeAt(domData, p))
             = generateComponentSignature(NodeAt(domData, q))

\* A recorded node and another node share tag, classes and child count but
\* differ in id, subtree and position.
C4_Witness ==
  /\ pc = "analyzed"
  /\ domData = [A_divHero EXCEPT !.children =
                  << [A_div EXCEPT !.children = <<A_button>>] >>]
  /\ Len(report.components) = 2
  /\ report.components[1].signature = <<"d","i","v",":",":","1">>

-----------------------------------------------------------------------------
(* repeatedPatterns as a grouping of the nodes *)

SigAt(p) == generateComponentSignature(NodeAt(domData, p))

GroupOf(s) == {p \in PositionsOf(domData) : SigAt(p) = s}

\* C7 as stated: every node of the tree belongs to exactly one group of
\* repeatedPatterns, and the counts of all groups sum to the number of nodes.
C7_PartitionAsStated ==
  pc # "captured" =>
    /\ \A p \in PositionsOf(domData) : SigAt(p) \in DOMAIN report.repeatedPatterns
    /\ SumOver([s \in DOMAIN report.repeatedPatterns |->
                  report.repeatedPatterns[s].count],
               DOMAIN report.repeatedPatterns)
         = Cardinality(PositionsOf(domData))

\* C7 (amended): the keys of repeatedPatterns partition, by signature, the
\* nodes whose signature is carried by more than one node: every such node
\* belongs to exactly one group, a node whose signature is unique belongs to
\* none, and the counts of all groups sum to the number of nodes with a
\* shared signature.
C7_PartitionOfRepeated ==
  pc # "captured" =>
    LET shared == {p \in PositionsOf(domData) : Cardinality(GroupOf(SigAt(p))) > 1}
    IN /\ \A p \in PositionsOf(domData) :
            (SigAt(p) \in DOMAIN report.repeatedPatterns) <=> (p \in shared)
       /\ \A s \in DOMAIN report.repeatedPatterns :
            report.repeatedPatterns[s].count = Cardinality(GroupOf(s))
       /\ SumOver([s \in DOMAIN report.repeatedPatterns |->
                     report.repeatedPatterns[s].count],
                  DOMAIN report.repeatedPatterns)
            = Cardinality(shared)

\* A tree of four nodes, two of them buttons sharing a signature and two with
\* a signature of their own, has been analysed: one group, of count 2.
C7_Witness ==
  /\ pc = "analyzed"
  /\ domData = [A_div EXCEPT !.children =
                  << [A_div EXCEPT !.children = <<A_button>>], A_button >>]
  /\ DOMAIN report.repeatedPatterns = {S_buttonSig}
  /\ report.repeatedPatterns[S_buttonSig].count = 2

-----------------------------------------------------------------------------
(* repeatedPatterns against the groups of the tree *)

Min(a, b) == IF a < b THEN a ELSE b

\* The positions carrying signature s, in pre-order
GroupInPreOrder(s) == SelectSeq(PreOrderOf(domData), LAMBDA p : SigAt(p) = s)

\* C6: the keys of repeatedPatterns are exactly the signatures carried by more
\* than one node of the tree; for each key, count is the number of nodes of
\* the whole tree with that signature and examples are the descriptors (tag,
\* id, classes) of the first min(count, 3) such nodes in pre-order.  Hence a
\* tree with one node per signature gives the empty mapping.
C6_RepeatedPatterns ==
  pc = "patterns" =>
    LET patterns == report.repeatedPatterns
    IN /\ DOMAIN patterns
            = {SigAt(p) : p \in {q \in PositionsOf(domData) :
                                   Cardinality(GroupOf(SigAt(q))) > 1}}
       /\ \A s \in DOMAIN patterns :
            /\ patterns[s].count = Cardinality(GroupOf(s))
            /\ Len(patterns[s].examples) = Min(patterns[s].count, 3)
            /\ \A i \in 1..Len(patterns[s].examples) :
                 LET n == NodeAt(domData, GroupInPreOrder(s)[i])
                 IN patterns[s].examples[i]
                      = [tag |-> n.tag, id |-> n.id, classes |-> n.classes]
       /\ (\A p, q \in PositionsOf(domData) : SigAt(p) = SigAt(q) => p = q)
            => DOMAIN patterns = {}

\* A signature carried by four childless siblings, the last of which differs
\* from the first three in its id, is reported with count 4 and three examples.
C6_Witness ==
  /\ pc = "patterns"
  /\ domData = [A_div EXCEPT !.children = <<A_div, A_div, A_div, A_divHero>>]
  /\ report.repeatedPatterns[<<"d","i","v",":",":","0">>].count = 4
  /\ Len(report.repeatedPatterns[<<"d","i","v",":",":","0">>].examples) = 3

-----------------------------------------------------------------------------
(* The palette against the styles of the tree *)

\* The values node n offers to a category, in the order the walk reads them
Offers(n, category) ==
  LET keep(prop, excluded) ==
        IF Truthy(Style(n, prop)) /\ Style(n, prop) \notin excluded
          THEN <<Style(n, prop)>> ELSE << >>
  IN CASE category = "colors" ->
            keep("backgroundColor", {V_transparent}) \o keep("color", {})
       [] category = "fontSizes" -> keep("fontSize", {})
       [] category = "fontWeights" -> keep("fontWeight", {})
       [] category = "spacing" -> keep("padding", {}) \o keep("margin", {})
       [] category = "borderRadii" -> keep("borderRadius", {V_0px})
       [] category = "shadows" -> keep("boxShadow", {K_none})

Categories ==
  {"colors", "fontSizes", "fontWeights", "spacing", "borderRadii", "shadows"}

\* Every value offered to a category over the whole tree, in pre-order
RECURSIVE StreamFrom(_, _, _)
StreamFrom(category, order, k) ==
  IF k > Len(order) THEN << >>
  ELSE Offers(NodeAt(domData, order[k]), category)
         \o StreamFrom(category, order, k + 1)

Stream(category) == StreamFrom(category, PreOrderOf(domData), 1)

FirstIndex(s, v) == CHOOSE i \in 1..Len(s) : s[i] = v /\ \A j \in 1..(i - 1) : s[j] # v

\* C8: the palette records, for every node: backgroundColor into colors unless
\* it is "rgba(0, 0, 0, 0)"; color into colors unconditionally; fontSize into
\* fontSizes; fontWeight into fontWeights; padding and margin into spacing;
\* borderRadius into borderRadii unless it is "0px"; boxShadow into shadows
\* unless it is "none".  No other value enters a category, "0px" is never in
\* borderRadii and "none" never in shadows.
C8_TokenSources ==
  pc = "tokens" =>
    /\ DOMAIN report.designTokens = Categories
    /\ \A c \in Categories : Range(report.designTokens[c]) = Range(Stream(c))
    /\ V_0px \notin Range(report.designTokens.borderRadii)
    /\ K_none \notin Range(report.designTokens.shadows)

\* A tree offering every exclusion has been scanned: transparent entered
\* colors as a text colour only, "0px" entered spacing and shadows, "none"
\* entered borderRadii.
C8_Witness ==
  /\ pc = "tokens"
  /\ domData = [A_plain EXCEPT !.children = <<A_card, A_odd>>]
  /\ report.designTokens.colors = <<V_blue, V_red, V_transparent>>
  /\ report.designTokens.borderRadii = <<V_4px, K_none>>
  /\ report.designTokens.shadows = <<V_shadow, V_0px>>

\* C9: each category of the palette holds no value twice, and its values are
\* in order of first discovery in a pre-order walk (within one node:
\* backgroundColor before color, padding before margin); a value seen again
\* later neither moves nor reappears.
C9_OrderedSets ==
  pc = "tokens" =>
    \A c \in Categories :
      LET seq == report.designTokens[c]
      IN /\ \A i, j \in 1..Len(seq) : seq[i] = seq[j] => i = j
         /\ Range(seq) = Range(Stream(c))
         /\ \A i, j \in 1..Len(seq) :
              i < j => FirstIndex(Stream(c), seq[i]) < FirstIndex(Stream(c), seq[j])

\* "8px" is discovered first, then "0px", then "16px", and "8px" is seen again
\* as the margin of the last node.
C9_Witness ==
  /\ pc = "tokens"
  /\ domData = [A_card EXCEPT !.children = <<A_odd>>]
  /\ report.designTokens.spacing = <<V_8px, V_0px, V_16px>>
  /\ report.designTokens.colors = <<V_red, V_transparent>>

-----------------------------------------------------------------------------
(* Nearest-entry quantization *)

\* The magnitude of a value written "<n>px", -1 for any other value
PlainPx(v) ==
  IF \E n \in 0..(MaxPx + 1) : v = Px(n)
    THEN CHOOSE n \in 0..(MaxPx + 1) : v = Px(n)
    ELSE -1

\* The token of the first declared entry of map at minimal distance from p
NearestToken(map, p) ==
  LET dist(i) == Abs(PlainPx(map[i].key) - p)
      best == CHOOSE i \in 1..Len(map) :
                /\ \A k \in 1..Len(map) : dist(i) <= dist(k)
                /\ \A k \in 1..(i - 1) : dist(k) > dist(i)
  IN map[best].val

QuantizedAsClaimed(map) ==
  /\ \A i \in 1..Len(map) : raw = map[i].key => result = map[i].val
  /\ PlainPx(raw) >= 0 => result = NearestToken(map, PlainPx(raw))

\* C10: mapSpacing and mapFontSize return the dictionary token on an exact key
\* match; otherwise, for a raw value "<p>px", the token of the entry whose
\* pixel magnitude is nearest to p, the first declared entry winning among
\* equally near ones.  For the spacing dictionary "9px" resolves to "2".
C10_NearestEntry ==
  /\ pc = "spacing" => QuantizedAsClaimed(spacingMap)
  /\ pc = "fontSize" => QuantizedAsClaimed(fontSizeMap)
  /\ (pc = "spacing" /\ raw = Px(9)) => result = <<"2">>

\* "10px" is equally near "8px" and "12px" and was quantized to the spacing
\* token of the first, "2".
C10_Witness ==
  /\ pc = "spacing"
  /\ raw = Px(10)
  /\ result = <<"2">>

-----------------------------------------------------------------------------
(* Colour quantization *)

\* two lower-case hexadecimal digits of a channel value below 256
ByteHex(n) == <<HexChars[(n \div 16) + 1], HexChars[(n % 16) + 1]>>

\* The rgb(r, g, b) texts a raw colour holds, as the hexadecimal colour each
\* one denotes
DenotedHex(v) ==
  {<<"#">> \o ByteHex(r) \o ByteHex(g) \o ByteHex(b) :
     <<r, g, b>> \in {t \in Channels \X Channels \X Channels :
       \E s1 \in Separators, s2 \in Separators :
         includes(v, RgbText(t[1], t[2], t[3], s1, s2))}}

\* The dictionary keys a raw colour stands for: itself, its rgb text written
\* as a hexadecimal colour, or, without an rgb text, its lower-case spelling
KeysFor(v) ==
  LET hex == DenotedHex(v)
  IN {i \in 1..Len(colorMap) :
        \/ colorMap[i].key = v
        \/ colorMap[i].key \in hex
        \/ hex = {} /\ colorMap[i].key = toLowerCase(v)}

\* C11 as stated: mapColor returns a token only when the raw colour itself is
\* a key of the colour dictionary.
C11_ExactLookupOnly ==
  (pc = "color" /\ result # Null) =>
    \E i \in 1..Len(colorMap) : colorMap[i].key = raw

\* C11, amended: mapColor returns the token of a dictionary key exactly when
\* the raw colour is that key or is normalized to it (an rgb(r, g, b) text read
\* as #rrggbb, any other text lower-cased); every other raw colour gives null,
\* however close it is to a dictionary colour, and an absent colour gives null.
C11_ExactAfterNormalization ==
  pc = "color" =>
    LET keys == IF Truthy(raw) THEN KeysFor(raw) ELSE {}
    IN IF keys = {} THEN result = Null
       ELSE /\ Cardinality(keys) = 1
            /\ \A i \in keys : result = colorMap[i].val

\* An rgb text one unit away from blue-500 gives no token.
C11_Witness ==
  /\ pc = "color"
  /\ raw = V_nearBlue
  /\ result = Null

-----------------------------------------------------------------------------
(* The radius table *)

\* the spellings of a zero radius among the raw radii
ZeroRadii == {V_0px, V_zeroPercent}

\* The token the radius table gives a raw radius: the five exact rules, md for
\* any other radius that is not zero, no token for a zero or absent radius
RadiusAsClaimed(v) ==
  IF ~Truthy(v) \/ v \in ZeroRadii THEN Null
  ELSE IF v = V_4px THEN K_sm
  ELSE IF v \in {V_6px, V_8px} THEN K_md
  ELSE IF v = V_12px THEN K_lg
  ELSE IF v = V_16px THEN K_xl
  ELSE IF v = V_9999px THEN K_full
  ELSE K_md

\* C13 as stated: mapBorderRadius maps "4px" to sm, "6px" and "8px" to md,
\* "12px" to lg, "16px" to xl, "9999px" to full, any other non-zero value to md,
\* and a zero or absent radius to no token.
C13_RadiusTable == pc = "radius" => result = RadiusAsClaimed(raw)

\* The zero radius "0%" is given the token md.
C13_ZeroPercentGetsMd ==
  /\ pc = "radius"
  /\ raw = V_zeroPercent
  /\ result = K_md

-----------------------------------------------------------------------------
(* The layout records against the displays of the tree *)

\* The layout type the claim gives a node, "null" for a node without a layout
LayoutTypeAsClaimed(n) ==
  LET display == Style(n, "display")
  IN CASE display = K_flex -> "flex"
       [] display = K_grid -> "grid"
       [] display \in {K_block, K_inlineBlock} -> "block"
       [] OTHER -> "null"

\* The positions of the nodes the claim gives a layout, in pre-order
LayoutPositions ==
  SelectSeq(PreOrderOf(domData),
            LAMBDA p : LayoutTypeAsClaimed(NodeAt(domData, p)) # "null")

\* C14: the layout walk emits a LayoutRecord exactly for the nodes whose
\* display is flex, grid, block or inline-block, in pre-order; the record
\* carries the node's tag, id, classes and child count; flex gives type flex
\* with the node's flexDirection, or "row" when it is unset; grid gives grid;
\* block and inline-block give block; display "none", an absent display or any
\* other value gives no record.
C14_LayoutRecords ==
  pc = "layouts" =>
    /\ Len(report.layouts) = Len(LayoutPositions)
    /\ \A k \in 1..Len(LayoutPositions) :
         LET n == NodeAt(domData, LayoutPositions[k])
             rec == report.layouts[k]
         IN /\ rec.tag = n.tag
            /\ rec.id = n.id
            /\ rec.classes = n.classes
            /\ rec.childCount = Len(n.children)
            /\ rec.layout.type = LayoutTypeAsClaimed(n)
            /\ rec.layout.type = "flex" =>
                 rec.layout.direction =
                   (IF Truthy(Style(n, "flexDirection"))
                      THEN Style(n, "flexDirection") ELSE K_row)

\* A hidden root over a block and a flex container without flexDirection: two
\* records, the block first, the flex one with direction row.
C14_Witness ==
  /\ pc = "layouts"
  /\ domData.styles = A_hidden.styles
  /\ Len(domData.children) = 2
  /\ domData.children[1] = A_block
  /\ domData.children[2] = A_flexUnset
  /\ Len(report.layouts) = 2
  /\ report.layouts[1].layout.type = "block"
  /\ report.layouts[2].layout.type = "flex"
  /\ report.layouts[2].layout.direction = K_row

-----------------------------------------------------------------------------
(* Values without a pixel magnitude *)

HasDigit(v) == \E i \in 1..Len(v), d \in 1..10 : v[i] = DigitChars[d]

\* A raw value that is absent or holds no pixel magnitude: no digit at all, or
\* no "px"
NoPixelMagnitude(v) ==
  ~Truthy(v) \/ ~HasDigit(v) \/ ~includes(v, <<"p","x">>)

HasPrefix(c, prefix) ==
  Len(c) >= Len(prefix) /\ SubSeq(c, 1, Len(prefix)) = prefix

\* the utility classes a font size can give
FontSizeClasses ==
  {<<"t","e","x","t","-">> \o fontSizeMap[i].val : i \in 1..Len(fontSizeMap)}

\* no entry of a configuration table holds raw value v, and no key is null
TableOmits(table, v) ==
  /\ \A k \in DOMAIN table : table[k] # v
  /\ Null \notin DOMAIN table /\ <<"n","u","l","l">> \notin DOMAIN table

\* C12: a raw spacing or font-size value that is absent or holds no pixel
\* magnitude ("auto", "normal", "1em") is quantized to null by mapSpacing and
\* mapFontSize; convertToTailwind emits no gap-, p-, m- or font-size class for
\* it and generateTailwindConfig no table entry.
C12_NoMapping ==
  /\ pc \in {"styled", "mapped", "configured"} =>
       \A k \in 1..Len(result.extractedStyles) :
         LET e == result.extractedStyles[k]
             spacingClass(prop, prefix) ==
               NoPixelMagnitude(Prop(e.styles, prop)) =>
                 /\ mapSpacing(Prop(e.styles, prop)) = Null
                 /\ \A i \in 1..Len(e.tailwindClasses) :
                      ~HasPrefix(e.tailwindClasses[i], prefix)
         IN /\ spacingClass("gap", <<"g","a","p","-">>)
            /\ spacingClass("padding", <<"p","-">>)
            /\ spacingClass("margin", <<"m","-">>)
            /\ NoPixelMagnitude(Prop(e.styles, "fontSize")) =>
                 /\ mapFontSize(Prop(e.styles, "fontSize")) = Null
                 /\ \A i \in 1..Len(e.tailwindClasses) :
                      e.tailwindClasses[i] \notin FontSizeClasses
  /\ pc = "configured" =>
       LET tables == result.tailwindConfig.theme.extend
       IN /\ \A i \in 1..Len(report.designTokens.spacing) :
               LET v == report.designTokens.spacing[i]
               IN NoPixelMagnitude(v) =>
                    mapSpacing(v) = Null /\ TableOmits(tables.spacing, v)
          /\ \A i \in 1..Len(report.designTokens.fontSizes) :
               LET v == report.designTokens.fontSizes[i]
               IN NoPixelMagnitude(v) =>
                    mapFontSize(v) = Null /\ TableOmits(tables.fontSize, v)

\* A root with "1em" padding, "auto" margin and a "normal" font size over a
\* card with pixel values: the run ends with the card's values in the tables
\* and none of the root's.
C12_Witness ==
  /\ pc = "configured"
  /\ domData.styles = A_auto.styles
  /\ Len(domData.children) = 1
  /\ domData.children[1] = A_card
  /\ report.designTokens.spacing = <<V_1em, V_auto, V_8px, V_0px>>
  /\ DOMAIN result.tailwindConfig.theme.extend.spacing = {<<"2">>, <<"0">>}
  /\ DOMAIN result.tailwindConfig.theme.extend.fontSize = {K_sm}
  /\ Len(result.extractedStyles) = 2
  /\ result.extractedStyles[1].tailwindClasses = <<<<"f","l","e","x">>>>

-----------------------------------------------------------------------------
(* The snapshot as a frame *)

\* C20: no operation of the run (the five walks of generateAnalysisReport,
\* extractStylesFromDOM, generateComponentMap, generateTailwindConfig) changes
\* the snapshot tree: every step leaves every node's tag, id, classes, rect,
\* styles and children as they were.
C20_SnapshotUnchanged == [][domData' = domData]_vars

\* The whole run has acted on a styled tree of three nodes and produced
\* components, extracted styles and a configuration.
C20_Witness ==
  /\ pc = "configured"
  /\ domData.styles = A_card.styles
  /\ Len(domData.children) = 2
  /\ domData.children[1] = A_odd
  /\ domData.children[2] = A_auto
  /\ Len(report.components) = 2
  /\ Len(result.extractedStyles) = 3
  /\ Len(componentMap.buttons) = 1

-----------------------------------------------------------------------------
(* The keyword rules of the component map *)

\* keyword kw is found in a class list: some token holds it, whatever the case
\* of its letters
Found(classes, kw) ==
  \E i \in 1..Len(classes) : includes(toLowerCase(classes[i]), kw)

\* the variant rules in their order: keyword, variant
VariantRules ==
  << <<K_primary, "default">>, <<K_secondary, "outline">>,
     <<K_danger, "destructive">>, <<K_destructive, "destructive">>,
     <<K_ghost, "ghost">> >>

VariantAsClaimed(classes) ==
  LET hits == {i \in 1..Len(VariantRules) : Found(classes, VariantRules[i][1])}
  IN IF hits = {} THEN "default"
     ELSE VariantRules[CHOOSE i \in hits : \A j \in hits : i <= j][2]

\* lg before sm, each found by its short or its long spelling
SizeAsClaimed(classes) ==
  IF Found(classes, K_lg) \/ Found(classes, K_large) THEN "lg"
  ELSE IF Found(classes, K_sm) \/ Found(classes, K_small) THEN "sm"
  ELSE "default"

\* C15 as stated: every Button entry's variant is that of the first keyword
\* found in the classes in the order primary -> default, secondary -> outline,
\* danger or destructive -> destructive, ghost -> ghost, else default; its
\* size is lg when the keyword lg is found, else sm when the keyword sm is
\* found, else default.
C15_SizeByLgSm ==
  pc = "mapped" =>
    \A k \in 1..Len(componentMap.buttons) :
      LET classes == componentMap.buttons[k].classes
      IN /\ componentMap.buttons[k].props.variant = VariantAsClaimed(classes)
         /\ componentMap.buttons[k].props.size =
              (IF Found(classes, K_lg) THEN "lg"
               ELSE IF Found(classes, K_sm) THEN "sm"
               ELSE "default")

\* C15, amended: the component map holds one Button entry per ComponentRecord
\* of type button, in order; its variant is that of the first keyword found in
\* the classes in the order primary -> default, secondary -> outline, danger
\* or destructive -> destructive, ghost -> ghost, else default; its size is lg
\* when lg or large is found, else sm when sm or small is found, else default.
C15_ButtonProps ==
  pc = "mapped" =>
    LET records == SelectSeq(report.components,
                             LAMBDA comp : comp.estimatedType = "button")
    IN /\ Len(componentMap.buttons) = Len(records)
       /\ domData.tag = K_button /\ domData.classes # << >> => Len(records) = 1
       /\ \A k \in 1..Len(records) :
            /\ componentMap.buttons[k].classes = records[k].classes
            /\ componentMap.buttons[k].props.variant =
                 VariantAsClaimed(records[k].classes)
            /\ componentMap.buttons[k].props.size =
                 SizeAsClaimed(records[k].classes)

\* A button of classes "secondary large": the variant is outline and the
\* size, found by the keyword large, is lg.
C15_Witness ==
  /\ pc = "mapped"
  /\ domData.tag = K_button
  /\ domData.classes = <<K_secondary, K_large>>
  /\ Len(componentMap.buttons) = 1
  /\ componentMap.buttons[1].props.variant = "outline"
  /\ componentMap.buttons[1].props.size = "lg"

\* C16 as stated: every navigation entry gets layout grid when its classes
\* contain grid, flex when they contain flex, and flex when they contain
\* neither keyword.
C16_DefaultFlex ==
  (pc = "mapped" /\ domData.tag = K_nav) =>
    /\ Len(componentMap.navigation) = 1
    /\ componentMap.navigation[1].layout =
         (IF Found(domData.classes, K_grid) THEN "grid" ELSE "flex")

\* C16, amended: every navigation entry gets layout grid when its classes
\* contain grid, otherwise flex when they contain flex, and block when they
\* contain neither keyword.
C16_DefaultBlock ==
  (pc = "mapped" /\ domData.tag = K_nav) =>
    /\ Len(componentMap.navigation) = 1
    /\ componentMap.navigation[1].classes = domData.classes
    /\ componentMap.navigation[1].layout =
         (IF Found(domData.classes, K_grid) THEN "grid"
          ELSE IF Found(domData.classes, K_flex) THEN "flex"
          ELSE "block")

\* A nav element whose classes hold neither keyword is given block.
C16_Witness ==
  /\ pc = "mapped"
  /\ domData.tag = K_nav
  /\ domData.classes = <<K_primary>>
  /\ componentMap.navigation[1].layout = "block"

-----------------------------------------------------------------------------
(* The component map as a total function of the report *)

MapCategories ==
  {"buttons", "forms", "navigation", "cards", "modals", "layouts", "inputs"}

\* the categories filled from each property of the report
FilledFrom(property) ==
  CASE property = "components" -> {"buttons", "forms", "cards", "modals", "inputs"}
    [] property = "sections" -> {"navigation"}
    [] property = "layouts" -> {"layouts"}

\* the nodes of the snapshot, root first, that the analyzer classified as type
NodesOfType(type) ==
  SelectSeq(<<domData>> \o domData.children,
            LAMBDA n : isComponentLike(n) /\ estimateComponentType(n) = type)

\* C17: generateComponentMap returns, for every report of the analyzer and
\* every such report lacking components, sections or layouts, exactly the
\* seven categories buttons, forms, navigation, cards, modals, layouts, inputs;
\* a category whose property the report lacks is empty; a button without a
\* variant keyword has variant default, without a size keyword size default; an
\* input without a type keyword has type text; a card has hasFooter true iff
\* its child count is greater than 2.
C17_TotalMap ==
  pc = "mapped" =>
    /\ DOMAIN componentMap = MapCategories
    /\ \A property \in {"components", "sections", "layouts"} :
         property \notin DOMAIN report =>
           \A category \in FilledFrom(property) : componentMap[category] = << >>
    /\ "components" \in DOMAIN report =>
         /\ Len(componentMap.buttons) = Len(NodesOfType("button"))
         /\ Len(componentMap.inputs) = Len(NodesOfType("input"))
         /\ Len(componentMap.cards) = Len(NodesOfType("card"))
         /\ \A k \in 1..Len(componentMap.buttons) :
              LET classes == NodesOfType("button")[k].classes
              IN /\ (\A i \in 1..Len(VariantRules) :
                       ~Found(classes, VariantRules[i][1]))
                      => componentMap.buttons[k].props.variant = "default"
                 /\ (\A kw \in {K_lg, K_large, K_sm, K_small} :
                       ~Found(classes, kw))
                      => componentMap.buttons[k].props.size = "default"
         /\ \A k \in 1..Len(componentMap.inputs) :
              (\A kw \in {K_email, K_password, K_search, K_number} :
                 ~Found(NodesOfType("input")[k].classes, kw))
                => componentMap.inputs[k].type = "text"
         /\ \A k \in 1..Len(componentMap.cards) :
              componentMap.cards[k].hasFooter
                <=> (Len(NodesOfType("card")[k].children) > 2)
    /\ "layouts" \in DOMAIN report =>
         Len(componentMap.layouts) = Len(report.layouts)

\* A card of three children, mapped from a report handed over without its
\* sections: the card has a footer, navigation is empty.
C17_Witness ==
  /\ pc = "mapped"
  /\ domData.classes = <<K_card>>
  /\ domData.children = <<A_inputHero, A_div, A_button>>
  /\ DOMAIN report = {"components", "layouts", "designTokens",
                      "repeatedPatterns", "timestamp"}
  /\ Len(componentMap.cards) = 1
  /\ componentMap.cards[1].hasFooter
  /\ componentMap.inputs[1].type = "text"
  /\ componentMap.navigation = << >>
  /\ Len(componentMap.layouts) = 1

-----------------------------------------------------------------------------
(* Two runs on one snapshot *)

CoreFields ==
  {"components", "layouts", "designTokens", "repeatedPatterns", "sections"}

-----------------------------------------------------------------------------
(* C19 *)

\* the snapshot is null or an empty tree: a node object without tag, classes
\* or children
EmptyInput ==
  \/ domData = NullSnapshot
  \/ DOMAIN domData \cap {"tag", "classes", "children"} = {}

\* the report holds no component, layout, section or pattern and six empty
\* token categories
IsEmptyReport(rep) ==
  /\ rep.components = << >>
  /\ rep.layouts = << >>
  /\ rep.sections = << >>
  /\ DOMAIN rep.repeatedPatterns = {}
  /\ DOMAIN rep.designTokens =
       {"colors", "fontSizes", "fontWeights", "spacing", "borderRadii",
        "shadows"}
  /\ \A c \in DOMAIN rep.designTokens : rep.designTokens[c] = << >>

\* C19: when the caller supplies a null snapshot or an empty tree (a node
\* object without tag, classes or children), generateAnalysisReport returns
\* an empty AnalysisReport (empty components, layouts and sections, an empty
\* repeatedPatterns mapping and six empty token categories) and raises no
\* error.
C19_EmptyInputEmptyReport ==
  (pc # "captured" /\ EmptyInput) => (pc = "analyzed" /\ IsEmptyReport(report))

\* a null snapshot, or a node object that has classes but neither tag nor
\* children nor styles
ClassesOnlyInput ==
  IF domData = NullSnapshot THEN TRUE
  ELSE /\ "classes" \in DOMAIN domData
       /\ DOMAIN domData \cap {"tag", "children", "styles"} = {}

\* the part of C19 the code keeps: such an input gives the empty report
C19_NullGivesEmptyReport ==
  (pc # "captured" /\ ClassesOnlyInput)
    => (pc = "analyzed" /\ IsEmptyReport(report))

\* generateAnalysisReport on the object {} has ended in the TypeError
C19_EmptyObjectThrows == pc = "threw" /\ DOMAIN domData = {}

-----------------------------------------------------------------------------
(* The records of each walk against the nodes of the tree *)

\* the positions whose node a walk records when it reaches it
RecordedBy(walk) ==
  {p \in PositionsOf(domData) :
     LET n == NodeAt(domData, p)
     IN CASE walk = "components" -> EligibleAsCoded(n)
          [] walk = "layouts" -> LayoutTypeAsClaimed(n) # "null"
          [] walk = "sections" -> n.tag \in sectionSelectors}

\* the component, layout, token and pattern walks consider every node once:
\* one record per eligible node, every offered token in its category, and
\* every repeated signature counted with all of its nodes
FourWalksEveryNodeOnce ==
  /\ Len(report.components) = Cardinality(RecordedBy("components"))
  /\ Len(report.layouts) = Cardinality(RecordedBy("layouts"))
  /\ \A p \in PositionsOf(domData), c \in Categories :
       Range(Offers(NodeAt(domData, p), c)) \subseteq Range(report.designTokens[c])
  /\ \A p \in PositionsOf(domData) :
       Cardinality(GroupOf(SigAt(p))) > 1 =>
         /\ SigAt(p) \in DOMAIN report.repeatedPatterns
         /\ report.repeatedPatterns[SigAt(p)].count = Cardinality(GroupOf(SigAt(p)))

\* C21: in each of the five independent walks (component scan, layout scan,
\* token scan, pattern scan, section scan) every node of the snapshot tree is
\* visited exactly once, so a node at any depth of the tree is considered for
\* that walk's records and none is considered twice.
C21_EveryNodeOncePerWalk ==
  pc # "captured" =>
    /\ FourWalksEveryNodeOnce
    /\ Len(report.sections) = Cardinality(RecordedBy("sections"))

\* what the code keeps of C21: the four other walks consider every node once,
\* the section walk every node at depth at most 10
C21_SectionsToDepthTen ==
  pc # "captured" =>
    /\ FourWalksEveryNodeOnce
    /\ Len(report.sections) =
         Cardinality({p \in RecordedBy("sections") : Len(p) <= MaxSectionDepth})

\* a nav element at depth 11, under ten cards and a link, is in no section
\* record, while the component walk recorded the eleven nodes above it
C21_DeepNavSkipped ==
  /\ pc = "analyzed"
  /\ domData.tag = K_div
  /\ Cardinality(PositionsOf(domData)) = 12
  /\ \E p \in PositionsOf(domData) :
       /\ Len(p) = 11
       /\ NodeAt(domData, p).tag = K_nav
  /\ report.sections = << >>
  /\ Len(report.components) = 11

-----------------------------------------------------------------------------
(* Termination of the walks on any structure *)

\* the nodes reachable from node i through children
RECURSIVE ReachableFrom(_, _)
ReachableFrom(g, seen) ==
  LET more == seen \cup UNION {Range(g[i].children) : i \in seen}
  IN IF more = seen THEN seen ELSE ReachableFrom(g, more)

\* some node reachable from the root is among its own descendants
HasCycle(g) ==
  \E i \in ReachableFrom(g, {1}) : i \in ReachableFrom(g, Range(g[i].children))

\* C22: every walk of the analysis bounds its recursion depth, and a branch
\* deeper than the bound is truncated instead of failing the analysis: on any
\* input, cyclic-looking structures included, each of the component, layout,
\* token, pattern and section walks and the interactive-descendant check
\* terminates normally and the report is still produced.
C22_ReportAlwaysProduced == pc # "threw"

\* what the code keeps of C22: the section walk never fails, without a cycle
\* no walk does, and with a cycle no report is produced
C22_SectionWalkBounded ==
  /\ ~WalkIn(domData, "sections").err
  /\ Len(WalkIn(domData, "sections").visited) <= MaxSectionDepth + 1
  /\ ~HasCycle(domData) => pc # "threw"
  /\ HasCycle(domData) => pc # "analyzed"

\* a button that is its own child: the component walk returned (the visited
\* set stops it, the button answers the interactive check at once) and the
\* layout walk exhausted the stack
C22_CycleOverflows ==
  /\ pc = "threw"
  /\ domData[1] = [tag |-> K_button, children |-> <<1>>]
  /\ result = << <<1>> >>

-----------------------------------------------------------------------------
(* Interleaved walks against walks run one after another *)

\* what walk w accumulates when it runs alone from start to end
RunAlone(w) ==
  CASE w = "components" -> analyzeComponentStructure(domData)
    [] w = "layouts" -> analyzeLayoutPatterns(domData)
    [] w = "designTokens" -> extractDesignTokens(domData)
    [] w = "repeatedPatterns" -> traversePatterns(domData, << >>)
    [] w = "sections" -> identifyPageSections(domData)

WalkEnded(w) == node[w] = Cardinality(PositionsOf(domData))

\* C23: the five walks are independent, none writes state another reads, so
\* every walk that has ended, whatever the interleaving with the other walks
\* and with a second analysis of the same snapshot, holds exactly what it
\* gives when run alone, and the second analysis gives the same components,
\* layouts, designTokens, repeatedPatterns and sections.
C23_IndependentWalks ==
  /\ \A w \in Walks : WalkEnded(w) => report[w] = RunAlone(w)
  /\ other # NoReport =>
       /\ \A w \in Walks \ {"repeatedPatterns"} : other[w] = RunAlone(w)
       /\ other.repeatedPatterns = detectRepeatedPatterns(domData)

\* a link under a nav element: all five walks ended beside a second analysis,
\* with a component, a layout, two tokens and a section recorded
C23_Witness ==
  /\ \A w \in Walks : WalkEnded(w)
  /\ other # NoReport
  /\ domData.tag = K_nav
  /\ domData.children = <<A_link>>
  /\ Len(report.components) = 1
  /\ Len(report.layouts) = 1
  /\ report.designTokens.colors = <<V_red>>
  /\ report.designTokens.fontSizes = <<V_14px>>
  /\ Len(report.sections) = 1
  /\ other.sections = report.sections

-----------------------------------------------------------------------------
(* The section records against the landmark nodes of the tree *)

LandmarkTags == {K_header, K_nav, K_main, K_aside, K_footer}

LandmarkRoles == {K_navigation, K_main, <<"c","o","n","t","e","n","t","i","n","f","o">>}

\* the role attribute of the element the node was captured from
RoleOf(n) ==
  IF "attributes" \in DOMAIN n /\ "role" \in DOMAIN n.attributes
    THEN n.attributes.role ELSE Undefined

IsLandmark(n) == n.tag \in LandmarkTags \/ RoleOf(n) \in LandmarkRoles

\* s is t with some elements left out
RECURSIVE IsSubsequence(_, _)
IsSubsequence(s, t) ==
  IF s = << >> THEN TRUE
  ELSE IF t = << >> THEN FALSE
  ELSE IF Head(s) = Head(t) THEN IsSubsequence(Tail(s), Tail(t))
  ELSE IsSubsequence(s, Tail(t))

\* the landmark nodes (or else the nodes with a section tag), in pre-order, as
\* the tag, id, classes and child count a SectionRecord carries
NodesAsRecorded(landmarksOnly) ==
  LET ps == SelectSeq(PreOrderOf(domData),
                      LAMBDA p : IF landmarksOnly
                                   THEN IsLandmark(NodeAt(domData, p))
                                   ELSE /\ Len(p) <= MaxSectionDepth
                                        /\ NodeAt(domData, p).tag \in
                                             LandmarkTags \cup {K_section, K_article})
  IN [k \in 1..Len(ps) |->
        LET n == NodeAt(domData, ps[k])
        IN <<n.tag, n.id, n.classes, Len(n.children)>>]

SectionsAsRecorded ==
  [k \in 1..Len(report.sections) |->
     <<report.sections[k].tag, report.sections[k].id,
       report.sections[k].classes, report.sections[k].childCount>>]

\* C24: sections contains, in traversal order, one SectionRecord for every
\* semantic landmark node of the tree: every node whose tag is header, nav,
\* main, aside or footer, and every role-equivalent node (a node whose role
\* attribute is navigation, main or contentinfo, whatever its tag).
C24_LandmarkSections ==
  pc # "captured" => IsSubsequence(NodesAsRecorded(TRUE), SectionsAsRecorded)

\* what the code records: the nodes whose tag is header, nav, main, section,
\* article, aside or footer and whose depth is at most 10, in pre-order,
\* whatever their role
C24_SectionTagsOnly ==
  pc # "captured" => SectionsAsRecorded = NodesAsRecorded(FALSE)

\* <div role="navigation"> over an article: the only section record is the
\* article's
C24_RoleNavigationMissed ==
  /\ pc = "analyzed"
  /\ RoleOf(domData) = K_navigation
  /\ domData.children = <<A_article>>
  /\ Len(report.sections) = 1
  /\ report.sections[1].tag = K_article

-----------------------------------------------------------------------------
(* The names of the component records *)

AlnumChars ==
  {"a","b","c","d","e","f","g","h","i","j","k","l","m","n","o","p","q","r",
   "s","t","u","v","w","x","y","z",
   "A","B","C","D","E","F","G","H","I","J","K","L","M","N","O","P","Q","R",
   "S","T","U","V","W","X","Y","Z",
   "0","1","2","3","4","5","6","7","8","9"}

NameAsClaimed(n) ==
  IF n.id # Undefined /\ n.id # << >> THEN n.id
  ELSE IF n.classes # << >>
    THEN SelectSeq(n.classes[1], LAMBDA c : c \in AlnumChars)
  ELSE n.tag \o <<"C","o","m","p","o","n","e","n","t">>

\* the positions of the nodes the component walk records, in pre-order
ComponentPositions ==
  SelectSeq(PreOrderOf(domData), LAMBDA p : EligibleAsCoded(NodeAt(domData, p)))

\* C25: the name of a classified component is its id when it has one,
\* otherwise its first class token with every non-alphanumeric character
\* removed, otherwise "<tag>Component".
C25_ComponentNames ==
  /\ pc # "captured" =>
       /\ Len(report.components) = Len(ComponentPositions)
       /\ \A k \in 1..Len(ComponentPositions) :
            report.components[k].name =
              NameAsClaimed(NodeAt(domData, ComponentPositions[k]))
  /\ \A p \in PositionsOf(domData) :
       generateComponentName(NodeAt(domData, p)) = NameAsClaimed(NodeAt(domData, p))

\* a div with classes a.b and -- over a button: the records are named ab and
\* btn
C25_Witness ==
  /\ pc = "analyzed"
  /\ domData.id = Undefined
  /\ domData.classes = <<T_aDotB, T_dashes>>
  /\ Len(report.components) = 2
  /\ report.components[1].name = <<"a","b">>
  /\ report.components[2].name = <<"b","t","n">>

-----------------------------------------------------------------------------
(* The magnitude the nearest-entry search uses *)

\* the digit characters a value starts with
LeadingDigits(v) ==
  LET k == CHOOSE k \in 0..Len(v) :
             /\ \A j \in 1..k : v[j] \in {"0","1","2","3","4","5","6","7","8","9"}
             /\ k < Len(v) => v[k + 1] \notin {"0","1","2","3","4","5","6","7","8","9"}
  IN SubSeq(v, 1, k)

\* the integer a string of digits denotes
NumberOf(digits) == CHOOSE n \in 0..(MaxPx + 1) : NumToStr(n) = digits

\* the value starts with "<n>px"
StartsWithPx(v) ==
  LET k == Len(LeadingDigits(v))
  IN k > 0 /\ Len(v) >= k + 2 /\ SubSeq(v, k + 1, k + 2) = <<"p","x">>

\* the digits right before the first "px" that follows a digit, << >> when
\* no "px" follows a digit
DigitsBeforeFirstPx(v) ==
  LET ends == {j \in 2..(Len(v) - 1) :
                 /\ SubSeq(v, j, j + 1) = <<"p","x">>
                 /\ v[j - 1] \in {"0","1","2","3","4","5","6","7","8","9"}}
  IN IF ends = {} THEN << >>
     ELSE LET j == CHOOSE j \in ends : \A k \in ends : j <= k
              i == CHOOSE i \in 1..(j - 1) :
                     /\ \A m \in i..(j - 1) :
                          v[m] \in {"0","1","2","3","4","5","6","7","8","9"}
                     /\ i > 1 =>
                          v[i - 1] \notin {"0","1","2","3","4","5","6","7","8","9"}
          IN SubSeq(v, i, j - 1)

IsKey(map, v) == \E i \in 1..Len(map) : map[i].key = v

\* the result follows the claim: the token nearest to the leading integer; no
\* token at all is also accepted when the leading integer is not in pixels
FromLeadingInteger(map) ==
  IsKey(map, raw) \/
    (IF StartsWithPx(raw)
       THEN result = NearestToken(map, NumberOf(LeadingDigits(raw)))
       ELSE result \in {Null, NearestToken(map, NumberOf(LeadingDigits(raw)))})

\* C26: when a spacing or font-size raw value is not an exact dictionary key,
\* the magnitude used for the nearest-entry search is the integer pixel
\* magnitude at the start of the raw value (its leading integer), e.g. the 10
\* of "10px 20px"; digits that occur later in the string, such as the
\* fractional digits of "1.5px" or a later component of a shorthand, are never
\* used as the magnitude.
C26_LeadingInteger ==
  /\ pc = "spacing" => FromLeadingInteger(spacingMap)
  /\ pc = "fontSize" => FromLeadingInteger(fontSizeMap)

\* the result as the code gives it: the token nearest to the digits right
\* before the first "px" that follows a digit, wherever they stand
FromFirstPxRun(map) ==
  IsKey(map, raw) \/
    (IF DigitsBeforeFirstPx(raw) = << >> THEN result = Null
     ELSE result = NearestToken(map, NumberOf(DigitsBeforeFirstPx(raw))))

C26_FirstPxRun ==
  /\ pc = "spacing" => FromFirstPxRun(spacingMap)
  /\ pc = "fontSize" => FromFirstPxRun(fontSizeMap)

\* the font size "13.33px" was quantized by its fraction, 33, to 3xl (30px)
C26_FractionUsed ==
  /\ pc = "fontSize"
  /\ raw = <<"1","3",".","3","3","p","x">>
  /\ result = <<"3","x","l">>

-----------------------------------------------------------------------------
(* The calls of the capture and of the runner *)

Made(call) == \E k \in 1..Len(result) : result[k].call = call

Failed(call) == \E k \in 1..Len(result) : result[k] = Called(call, FALSE)

\* the screenshot and the DOM and style extraction of captureFullPage
CaptureWork ==
  {"screenshot", "extractDOMStructure", "extractComputedStyles",
   "extractBoundingRectangles"}

\* C27: captureFullPage first navigates waiting for 'load'; only if that
\* attempt fails does it navigate a second time waiting for
\* 'domcontentloaded'; if the second attempt also fails the error propagates
\* to the caller and neither the screenshot nor any DOM or style extraction is
\* performed; a failure of the wait for the body selector is ignored and the
\* capture continues.
C27_LoadFallback ==
  /\ \A k \in 1..Len(result) :
       /\ result[k].call = "goto.domcontentloaded" =>
            k > 1 /\ result[k - 1] = Called("goto.load", FALSE)
       /\ result[k] = Called("goto.load", FALSE) =>
            IF k < Len(result) THEN result[k + 1].call = "goto.domcontentloaded"
            ELSE pc = "goto.domcontentloaded" /\ node = "none"
       /\ result[k] = Called("goto.load", TRUE) =>
            IF k < Len(result) THEN result[k + 1].call = "waitForTimeout"
            ELSE pc = "waitForTimeout"
       /\ result[k].call = "waitForSelector" =>
            IF k < Len(result) THEN result[k + 1].call = "screenshot"
            ELSE pc = "screenshot" /\ node = "none"
  /\ Failed("goto.domcontentloaded") =>
       /\ \A c \in CaptureWork : ~Made(c)
       /\ node # "none"
       /\ pc \in {"close", "rejected"}

\* 'load' failed, 'domcontentloaded' succeeded, the wait for body failed, and
\* the run completed with the screenshot taken
C27_Witness ==
  /\ pc = "resolved"
  /\ Failed("goto.load")
  /\ result[5] = Called("goto.domcontentloaded", TRUE)
  /\ Failed("waitForSelector")
  /\ result[8] = Called("screenshot", TRUE)

\* C28: capture.close() is executed on every path out of captureBrowserData,
\* after a successful capture and after a failure of initialisation,
\* navigation, DOM extraction or interaction capture, so no path leaves a
\* launched browser open; and when a pipeline phase throws, no later phase is
\* started and the error is rethrown by run().
C28_CloseOnEveryPath ==
  /\ pc \in {"rejected", "resolved"} \cup Range(Phases) =>
       /\ Made("close")
       /\ other # "open"
  /\ \A k \in 1..Len(result) :
       /\ (result[k].call \in ThrowingCalls \cup {"launch"} /\ ~result[k].ok) =>
            /\ \A p \in Range(Phases) : ~Made(p)
            /\ pc \in {"close", "rejected"}
            /\ k < Len(result) => result[k + 1].call = "close" /\ k + 1 = Len(result)
       /\ (result[k].call \in Range(Phases) /\ ~result[k].ok) =>
            k = Len(result) /\ pc = "rejected" /\ node = result[k].call
  /\ pc = "resolved" => \A p \in Range(Phases) : Made(p) /\ ~Failed(p)

\* extractFullDOM rejected after a complete captureFullPage: the browser was
\* closed, the run rejected and no phase started
C28_Witness ==
  /\ pc = "rejected"
  /\ node = "extractFullDOM"
  /\ other = "closed"
  /\ result[Len(result)] = Called("close", TRUE)
  /\ ~Made("analyzeUI")

-----------------------------------------------------------------------------
(* The navigation category of the component map *)

\* text holds word without regard to case
HoldsWord(text, word) ==
  text # Undefined /\
    \E i \in 1..(Len(text) - Len(word) + 1) :
      \A j \in 1..Len(word) :
        \/ text[i + j - 1] = word[j]
        \/ \E c \in 1..26 : UpperChars[c] = text[i + j - 1] /\ LowerChars[c] = word[j]

\* the nodes the claim gives a navigation entry, in pre-order: section-tag
\* nodes at depth at most 10 that are not tagged header, whose id does not
\* hold "header", and whose tag is nav or one of whose classes holds "nav"
NavigationPositions ==
  SelectSeq(PreOrderOf(domData),
    LAMBDA p :
      LET n == NodeAt(domData, p)
      IN /\ Len(p) <= 10
         /\ n.tag \in {K_header, K_nav, K_main, K_section, K_article, K_aside, K_footer}
         /\ n.tag # K_header
         /\ ~HoldsWord(n.id, K_header)
         /\ \/ n.tag = K_nav
            \/ \E i \in 1..Len(n.classes) : HoldsWord(n.classes[i], K_nav))

ComponentCategories == {"buttons", "forms", "cards", "modals", "inputs"}

\* how many entries of the five component categories carry the name, tag and
\* classes of component record r
EntriesLike(r) ==
  SumOver([c \in ComponentCategories |->
             Cardinality({j \in 1..Len(componentMap[c]) :
                            /\ componentMap[c][j].name = r.name
                            /\ componentMap[c][j].originalTag = r.tag
                            /\ componentMap[c][j].classes = r.classes})],
          ComponentCategories)

\* how many component records like r (same name, tag and classes) have an
\* estimated type among types
RecordsLike(r, types) ==
  Cardinality({k \in 1..Len(report.components) :
                 /\ report.components[k].name = r.name
                 /\ report.components[k].tag = r.tag
                 /\ report.components[k].classes = r.classes
                 /\ report.components[k].estimatedType \in types})

\* C29: the navigation category of the component map is derived from sections
\* only, never from components: it holds exactly one entry per SectionRecord
\* whose purpose is navigation, i.e. per section-tag node (at depth at most
\* 10) that is not tagged header, whose id does not contain "header", and
\* whose tag is nav or whose classes contain "nav" (both compared without
\* regard to case).  A ComponentRecord of estimated type navigation that is
\* not such a section appears in no category of the map: not in navigation,
\* not in buttons, forms, cards, modals or inputs, and layouts holds the
\* layout records only; every ComponentRecord appears in at most one of
\* buttons, forms, cards, modals, inputs.
C29_NavigationFromSections ==
  pc = "mapped" =>
    /\ Len(componentMap.navigation) = Len(NavigationPositions)
    /\ Len(componentMap.navigation) =
         Cardinality({k \in 1..Len(report.sections) :
                        report.sections[k].purpose = "navigation"})
    /\ \A k \in 1..Len(NavigationPositions) :
         LET n == NodeAt(domData, NavigationPositions[k])
             entry == componentMap.navigation[k]
         IN /\ entry.originalTag = n.tag
            /\ entry.classes = n.classes
            /\ entry.name = (IF n.id # Undefined /\ n.id # << >>
                               THEN n.id ELSE K_Navigation)
    /\ \A k \in 1..Len(report.components) :
         LET r == report.components[k]
         IN EntriesLike(r) =
              RecordsLike(r, {"button", "form", "card", "modal", "input"})
    /\ Len(componentMap.layouts) = Len(report.layouts)
    /\ \A k \in 1..Len(report.layouts) :
         componentMap.layouts[k].layoutProps = report.layouts[k].layout

\* a nav element over a link of class menu: the link is a component of type
\* navigation and is in no category, the nav element is the one navigation
\* entry
C29_Witness ==
  /\ pc = "mapped"
  /\ domData.tag = K_nav
  /\ domData.id = Undefined
  /\ domData.children = <<A_linkMenu>>
  /\ \E k \in 1..Len(report.components) :
       /\ report.components[k].tag = K_a
       /\ report.components[k].estimatedType = "navigation"
  /\ Len(componentMap.navigation) = 1
  /\ componentMap.navigation[1].originalTag = K_nav
  /\ componentMap.buttons = << >>

-----------------------------------------------------------------------------
(* The configuration tables against the palette *)

\* the token a raw value of the category quantizes to
TokenOf(category, v) ==
  CASE category = "colors" -> mapColor(v)
    [] category = "fontSizes" -> mapFontSize(v)
    [] category = "spacing" -> mapSpacing(v)

\* the table generateTailwindConfig builds from a palette category
TableOf(category) ==
  CASE category = "colors" -> result.tailwindConfig.theme.extend.colors
    [] category = "fontSizes" -> result.tailwindConfig.theme.extend.fontSize
    [] category = "spacing" -> result.tailwindConfig.theme.extend.spacing

\* C30: generateTailwindConfig builds name -> raw value tables in which every
\* entry's raw value belongs to the palette and quantizes to that name; when
\* several palette values of one category quantize to the same token name,
\* the table keeps a single entry for the name holding the value discovered
\* last in palette order, and palette values with no mapping contribute no
\* entry.
C30_ConfigTables ==
  pc = "configured" =>
    \A category \in {"colors", "fontSizes", "spacing"} :
      LET palette == report.designTokens[category]
          table == TableOf(category)
          named(name) == {i \in 1..Len(palette) : TokenOf(category, palette[i]) = name}
      IN /\ \A name \in DOMAIN table :
              /\ named(name) # {}
              /\ table[name] =
                   palette[CHOOSE i \in named(name) : \A j \in named(name) : j <= i]
              /\ TokenOf(category, table[name]) = name
         /\ \A i \in 1..Len(palette) :
              IF TokenOf(category, palette[i]) = Null
                THEN \A name \in DOMAIN table : table[name] # palette[i]
                ELSE TokenOf(category, palette[i]) \in DOMAIN table
         /\ Null \notin DOMAIN table

\* a panel over a node with nearby values: "8px", "9px" and "10px" share the
\* spacing token 2, which holds "10px"; the two notations of white share one
\* entry holding the later one; red has no entry
C30_Witness ==
  /\ pc = "configured"
  /\ domData.styles = A_panel.styles
  /\ domData.children = <<A_nearPanel>>
  /\ report.designTokens.spacing = <<V_8px, V_0px, Px(9), Px(10)>>
  /\ result.tailwindConfig.theme.extend.spacing =
       [name \in {<<"2">>, <<"0">>} |-> IF name = <<"2">> THEN Px(10) ELSE V_0px]
  /\ result.tailwindConfig.theme.extend.colors =
       [name \in {<<"w","h","i","t","e">>, <<"b","l","u","e","-","5","0","0">>} |->
          IF name = <<"w","h","i","t","e">> THEN V_upperWhite ELSE V_blue500]
  /\ result.tailwindConfig.theme.extend.fontSize =
       [name \in {K_sm} |-> Px(15)]
=============================================================================
